---- MODULE Spec2Model ----
(***************************************************************************)
(* Model of ggshield's user configuration layer                            *)
(* (ggshield/core/config/user_config.py and ggshield/core/config/utils.py).*)
(*                                                                         *)
(* YAML / Python values are tagged records [t |-> tag, v |-> payload].     *)
(* A mapping is a function whose domain is a finite set of keys.  A key is *)
(* the sequence of its words and separator characters, so that             *)
(* "ignored-matches" is <<"ignored", "-", "matches">> and str.replace on a *)
(* key is computed character by character.                                 *)
(***************************************************************************)
EXTENDS Integers, Sequences, FiniteSets, TLC

(***************************************************************************)
(* Values                                                                  *)
(***************************************************************************)
\* T(n) is the instant n (a datetime with its UTC offset), Dt(d) the bare
\* calendar date d, Naive(n) a datetime without time zone whose clock
\* reading is n.  Instants and readings are counted in ticks, TicksPerDay
\* to the day, from midnight UTC of date 0.
Null == [t |-> "null", v |-> 0]
B(b) == [t |-> "bool", v |-> b]
I(n) == [t |-> "int", v |-> n]
S(s) == [t |-> "str", v |-> s]
T(n) == [t |-> "time", v |-> n]
Dt(d) == [t |-> "date", v |-> d]
Naive(n) == [t |-> "naive", v |-> n]
L(q) == [t |-> "list", v |-> q]
St(s) == [t |-> "set", v |-> s]
D(m) == [t |-> "dict", v |-> m]

EmptyMap == << >>
EmptyDict == D(EmptyMap)

\* A file that does not exist, and a file whose text is not valid YAML.
Missing == [t |-> "missing", v |-> 0]
BadYaml == [t |-> "badyaml", v |-> 0]

\* Python truthiness of a value (the `x or y` and `if x` tests of the code).
Falsy(x) ==
    \/ x.t = "null"
    \/ x.t = "bool" /\ x.v = FALSE
    \/ x.t = "int" /\ x.v = 0
    \/ x.t = "str" /\ x.v = ""
    \/ x.t = "list" /\ Len(x.v) = 0
    \/ x.t = "set" /\ x.v = {}
    \/ x.t = "dict" /\ DOMAIN x.v = {}

\* Python ==, where bool is an int (True == 1).
AsInt(x) == IF x.t = "bool" THEN (IF x.v THEN 1 ELSE 0) ELSE x.v

PyEqNumbers(x, y) == AsInt(x) = AsInt(y)

PyEq(x, y) ==
    IF x.t \in {"bool", "int"} /\ y.t \in {"bool", "int"}
    THEN PyEqNumbers(x, y)
    ELSE x = y

\* dict.get(key) / dict.get(key, default) / key in dict / dict.pop(key, ...)
Has(m, k) == k \in DOMAIN m
GetOr(m, k, default) == IF k \in DOMAIN m THEN m[k] ELSE default
Get(m, k) == GetOr(m, k, Null)
Pop(m, k) == [x \in DOMAIN m \ {k} |-> m[x]]
Put(m, k, val) == [x \in DOMAIN m \cup {k} |-> IF x = k THEN val ELSE m[x]]

(***************************************************************************)
(* Keys                                                                    *)
(***************************************************************************)
Contains(key, ch) == \E i \in 1..Len(key) : key[i] = ch
StrReplace(key, old, new) ==
    [i \in 1..Len(key) |-> IF key[i] = old THEN new ELSE key[i]]

W1(a) == <<a>>
W2(a, b) == <<a, "-", b>>
W3(a, b, c) == <<a, "-", b, "-", c>>
W4(a, b, c, d) == <<a, "-", b, "-", c, "-", d>>
Us(key) == StrReplace(key, "-", "_")

K_version == W1("version")
K_secret == W1("secret")
K_iac == W1("iac")
K_sca == W1("sca")
K_instance == W1("instance")
K_verbose == W1("verbose")
K_debug == W1("debug")
K_name == W1("name")
K_match == W1("match")
K_path == W1("path")
K_policy == W1("policy")
K_identifier == W1("identifier")
K_comment == W1("comment")
K_until == W1("until")
K_exit_zero == W2("exit", "zero")
K_allow_self_signed == W3("allow", "self", "signed")
K_max_commits_for_hook == W4("max", "commits", "for", "hook")
K_show_secrets == W2("show", "secrets")
K_ignored_detectors == W2("ignored", "detectors")
K_ignored_matches == W2("ignored", "matches")
K_ignored_paths == W2("ignored", "paths")
K_ignored_policies == W2("ignored", "policies")
K_ignored_vulnerabilities == W2("ignored", "vulnerabilities")
K_minimum_severity == W2("minimum", "severity")
K_ignore_not_fixable == W3("ignore", "not", "fixable")
K_ignore_fixable == W2("ignore", "fixable")
K_outdated_ignored_paths == W3("outdated", "ignored", "paths")
K_outdated_ignored_policies == W3("outdated", "ignored", "policies")
K_deprecation_messages == W2("deprecation", "messages")
K_api_url == W2("api", "url")
K_matches_ignore == W2("matches", "ignore")
K_paths_ignore == W2("paths", "ignore")
K_banlisted_detectors == W2("banlisted", "detectors")
K_all_policies == W2("all", "policies")
K_ignore_default_excludes == W3("ignore", "default", "excludes")

CURRENT_CONFIG_VERSION == 2
IGNORE_KNOWN_SECRETS_KEY == W3("ignore", "known", "secrets")

(***************************************************************************)
(* utils.py                                                                *)
(***************************************************************************)
RECURSIVE replace_in_keys_of_mappings(_, _, _)
\* replace_in_keys without the branch for lists.
replace_in_keys_of_mappings(data, old_char, new_char) ==
    IF data.t = "dict" THEN
        LET m == data.v
            renamed(k) == StrReplace(k, old_char, new_char)
            newKeys == {renamed(k) : k \in DOMAIN m}
            fromOld(nk) == {k \in DOMAIN m : Contains(k, old_char) /\ renamed(k) = nk}
            src(nk) == IF fromOld(nk) # {} THEN CHOOSE k \in fromOld(nk) : TRUE ELSE nk
        IN D([nk \in newKeys |-> replace_in_keys_of_mappings(m[src(nk)], old_char, new_char)])
    ELSE data

RECURSIVE replace_in_keys(_, _, _)
\* Returns the value the in-place rewrite leaves in `data`.  A renamed key
\* overwrites an entry that already has the new name (data[new_key] =
\* data.pop(key)).
replace_in_keys(data, old_char, new_char) ==
    IF data.t = "dict" THEN
        LET m == data.v
            renamed(k) == StrReplace(k, old_char, new_char)
            newKeys == {renamed(k) : k \in DOMAIN m}
            fromOld(nk) == {k \in DOMAIN m : Contains(k, old_char) /\ renamed(k) = nk}
            src(nk) == IF fromOld(nk) # {} THEN CHOOSE k \in fromOld(nk) : TRUE ELSE nk
        IN D([nk \in newKeys |-> replace_in_keys(m[src(nk)], old_char, new_char)])
    ELSE IF data.t = "list" THEN
        L([i \in 1..Len(data.v) |-> replace_in_keys(data.v[i], old_char, new_char)])
    ELSE data

\* load_yaml_dict: [exc, ret]; ret is Null for Python's None.
load_yaml_dict(file) ==
    IF file = Missing THEN [exc |-> "", ret |-> Null]
    ELSE IF file = BadYaml THEN [exc |-> "ValueError", ret |-> Null]
    ELSE LET data == IF Falsy(file) THEN EmptyDict ELSE file
         IN IF data.t # "dict"
            THEN [exc |-> "ValueError", ret |-> Null]
            ELSE [exc |-> "", ret |-> data]

RECURSIVE update_dict_replacing_lists(_, _)
\* update_dict_from_other with a list of src assigned (dst[name] = value)
\* where the code extends the list of dst.
update_dict_replacing_lists(dst, src) ==
    LET names == {name \in DOMAIN src : src[name] # Null}
        one(name) ==
            LET value == src[name] IN
            IF value.t = "set" THEN
                LET cur == GetOr(dst.v, name, St({})) IN
                IF cur.t = "set"
                THEN [exc |-> "", v |-> St(cur.v \cup value.v)]
                ELSE [exc |-> "AttributeError", v |-> cur]
            ELSE IF value.t = "dict" THEN
                update_dict_replacing_lists(GetOr(dst.v, name, EmptyDict), value.v)
            ELSE [exc |-> "", v |-> value]
        updated == [name \in names |-> one(name)]
        raised == {name \in names : updated[name].exc # ""}
    IN IF names = {} THEN [exc |-> "", v |-> dst]
       ELSE IF dst.t # "dict" THEN [exc |-> "AttributeError", v |-> dst]
       ELSE IF raised # {}
       THEN [exc |-> updated[CHOOSE name \in raised : TRUE].exc, v |-> dst]
       ELSE [exc |-> "",
             v |-> D([name \in DOMAIN dst.v \cup names |->
                       IF name \in names THEN updated[name].v ELSE dst.v[name]])]

\* update_dict_from_other as dst.update of the values of src that are not
\* None, without recursion into mappings.
update_dict_shallow(dst, src) ==
    [exc |-> "",
     v |-> D([name \in DOMAIN dst.v \cup {n \in DOMAIN src : src[n] # Null} |->
                IF name \in DOMAIN src /\ src[name] # Null THEN src[name]
                ELSE dst.v[name]])]

RECURSIVE update_dict_from_other(_, _)
\* dst is the value updated in place (a mapping, or whatever setdefault
\* returned), src a mapping; the result is [exc, v] with v what the update
\* leaves in dst.  setdefault, extend, update and item assignment on a
\* destination of another kind raise.  When several keys of src raise, the
\* one met first in the iteration order of src decides the exception; the
\* model keeps no order and takes one of them.
update_dict_from_other(dst, src) ==
    LET names == {name \in DOMAIN src : src[name] # Null}
        one(name) ==
            LET value == src[name] IN
            IF value.t = "list" THEN
                LET cur == GetOr(dst.v, name, L(<< >>)) IN
                IF cur.t = "list"
                THEN [exc |-> "", v |-> L(cur.v \o value.v)]
                ELSE [exc |-> "AttributeError", v |-> cur]
            ELSE IF value.t = "set" THEN
                LET cur == GetOr(dst.v, name, St({})) IN
                IF cur.t = "set"
                THEN [exc |-> "", v |-> St(cur.v \cup value.v)]
                ELSE IF cur.t = "dict"
                THEN (IF value.v = {} THEN [exc |-> "", v |-> cur]
                      ELSE [exc |-> "ValueError", v |-> cur])
                ELSE [exc |-> "AttributeError", v |-> cur]
            ELSE IF value.t = "dict" THEN
                update_dict_from_other(GetOr(dst.v, name, EmptyDict), value.v)
            ELSE [exc |-> "", v |-> value]
        updated == [name \in names |-> one(name)]
        raised == {name \in names : updated[name].exc # ""}
    IN IF names = {} THEN [exc |-> "", v |-> dst]
       ELSE IF dst.t # "dict"
       THEN [exc |-> IF \E name \in names : src[name].t \in {"list", "set", "dict"}
                     THEN "AttributeError" ELSE "TypeError",
             v |-> dst]
       ELSE IF raised # {}
       THEN [exc |-> updated[CHOOSE name \in raised : TRUE].exc, v |-> dst]
       ELSE [exc |-> "",
             v |-> D([name \in DOMAIN dst.v \cup names |->
                       IF name \in names THEN updated[name].v ELSE dst.v[name]])]

RECURSIVE remove_common_dict_items(_, _)
\* dct and reference_dct are mappings; returns the mapping result_dct.
remove_common_dict_items(dct, reference_dct) ==
    LET reduced == [key \in DOMAIN dct |->
                       IF dct[key].t = "dict"
                       THEN D(remove_common_dict_items(dct[key].v, reference_dct[key].v))
                       ELSE dct[key]]
        kept == {key \in DOMAIN dct :
                    IF dct[key].t = "dict"
                    THEN ~Falsy(reduced[key])
                    ELSE ~PyEq(dct[key], reference_dct[key])}
    IN [key \in kept |-> reduced[key]]

(***************************************************************************)
(* user_config.py: schemas                                                 *)
(***************************************************************************)
Valid(x) == [ok |-> TRUE, v |-> x]
Invalid == [ok |-> FALSE, v |-> Null]

BoolField(default) == [ty |-> "bool", cls |-> "", default |-> B(default), required |-> FALSE]
IntField(default) == [ty |-> "int", cls |-> "", default |-> I(default), required |-> FALSE]
StrField(default) == [ty |-> "str", cls |-> "", default |-> S(default), required |-> FALSE]
RequiredStrField(validator) == [ty |-> "str", cls |-> validator, default |-> Null, required |-> TRUE]
OptionalStrField == [ty |-> "optstr", cls |-> "", default |-> Null, required |-> FALSE]
OptionalDatetimeField == [ty |-> "optdatetime", cls |-> "", default |-> Null, required |-> FALSE]
StrSetField == [ty |-> "strset", cls |-> "", default |-> St({}), required |-> FALSE]
ListField(cls) == [ty |-> "list", cls |-> cls, default |-> L(<< >>), required |-> FALSE]
NestedField(cls) == [ty |-> "nested", cls |-> cls, default |-> Null, required |-> FALSE]

\* Identifiers the two patterns accept and reject (fullmatch).
POLICY_ID_PATTERN == {"GG_IAC_0001", "GG_IAC_0002"}
GHSA_ID_PATTERN == {"GHSA-aaaa-bbbb-cccc", "GHSA-dddd-eeee-ffff"}
validate_policy_id(policy_id) == policy_id \in POLICY_ID_PATTERN
is_ghsa_valid(ghsa_id) == ghsa_id \in GHSA_ID_PATTERN

IgnoredMatchFields ==
    (K_name :> OptionalStrField) @@ (K_match :> RequiredStrField(""))

SecretConfigFields ==
    (Us(K_show_secrets) :> BoolField(FALSE))
    @@ (Us(K_ignored_detectors) :> StrSetField)
    @@ (Us(K_ignored_matches) :> ListField("IgnoredMatch"))
    @@ (Us(K_ignored_paths) :> StrSetField)
    @@ (Us(IGNORE_KNOWN_SECRETS_KEY) :> BoolField(FALSE))

ConfigIgnoredElementFields ==
    (K_comment :> OptionalStrField) @@ (K_until :> OptionalDatetimeField)

IaCConfigIgnoredPathFields ==
    ConfigIgnoredElementFields @@ (K_path :> RequiredStrField(""))

IaCConfigIgnoredPolicyFields ==
    ConfigIgnoredElementFields @@ (K_policy :> RequiredStrField("policy"))

SCAConfigIgnoredVulnerabilityFields ==
    ConfigIgnoredElementFields
    @@ (K_identifier :> RequiredStrField("ghsa"))
    @@ (K_path :> RequiredStrField(""))

\* The outdated_* fields are excluded from UserConfig.SCHEMA: never loaded.
IaCConfigFields ==
    (Us(K_ignored_paths) :> ListField("IaCConfigIgnoredPath"))
    @@ (Us(K_ignored_policies) :> ListField("IaCConfigIgnoredPolicy"))
    @@ (Us(K_minimum_severity) :> StrField("LOW"))

SCAConfigFields ==
    (Us(K_ignored_paths) :> StrSetField)
    @@ (Us(K_minimum_severity) :> StrField("LOW"))
    @@ (Us(K_ignored_vulnerabilities) :> ListField("SCAConfigIgnoredVulnerability"))
    @@ (Us(K_ignore_not_fixable) :> BoolField(FALSE))
    @@ (Us(K_ignore_fixable) :> BoolField(FALSE))

UserConfigFields ==
    (K_iac :> NestedField("IaCConfig"))
    @@ (K_instance :> OptionalStrField)
    @@ (Us(K_exit_zero) :> BoolField(FALSE))
    @@ (K_verbose :> BoolField(FALSE))
    @@ (Us(K_allow_self_signed) :> BoolField(FALSE))
    @@ (Us(K_max_commits_for_hook) :> IntField(50))
    @@ (K_sca :> NestedField("SCAConfig"))
    @@ (K_secret :> NestedField("SecretConfig"))
    @@ (K_debug :> BoolField(FALSE))

Fields(cls) ==
    CASE cls = "IgnoredMatch" -> IgnoredMatchFields
      [] cls = "SecretConfig" -> SecretConfigFields
      [] cls = "IaCConfigIgnoredPath" -> IaCConfigIgnoredPathFields
      [] cls = "IaCConfigIgnoredPolicy" -> IaCConfigIgnoredPolicyFields
      [] cls = "SCAConfigIgnoredVulnerability" -> SCAConfigIgnoredVulnerabilityFields
      [] cls = "IaCConfig" -> IaCConfigFields
      [] cls = "SCAConfig" -> SCAConfigFields
      [] cls = "UserConfig" -> UserConfigFields

\* FilteredConfig: keys are read with "-" as "_", and keys that are no field
\* of the class are dropped.
filter_fields(cls, m) ==
    LET names == {Us(k) : k \in DOMAIN m} \cap DOMAIN Fields(cls)
    IN [name \in names |-> m[CHOOSE k \in DOMAIN m : Us(k) = name]]

\* The pre_load hooks: a bare string stands for {path: s} / {policy: s}.
convert_paths(in_data) ==
    IF in_data.t = "str" THEN D(K_path :> in_data) ELSE in_data

convert_policies(in_data) ==
    IF in_data.t = "str" THEN D(K_policy :> in_data) ELSE in_data

TicksPerDay == 2

\* ConfigIgnoredElement.parse_date: strptime(str(until), "%Y-%m-%d") succeeds
\* on a bare date only, and gives midnight of that date without time zone.
parse_date(data) ==
    IF data.t # "dict" \/ Get(data.v, K_until) = Null THEN data
    ELSE IF data.v[K_until].t = "date"
    THEN D(Put(data.v, K_until, Naive(data.v[K_until].v * TicksPerDay)))
    ELSE data

\* datetime.astimezone(timezone.utc): a datetime without time zone is taken
\* as the local time of the machine, utcoffset ahead of UTC.
astimezone_utc(value, utcoffset) ==
    IF value.t = "naive" THEN T(value.v - utcoffset) ELSE value

\* ConfigIgnoredElement.datetime_to_utc
datetime_to_utc(data, utcoffset) ==
    IF data[K_until] # Null
    THEN Put(data, K_until, astimezone_utc(data[K_until], utcoffset))
    ELSE data

pre_load(cls, raw) ==
    CASE cls = "IaCConfigIgnoredPath" -> parse_date(convert_paths(raw))
      [] cls = "IaCConfigIgnoredPolicy" -> parse_date(convert_policies(raw))
      [] cls = "SCAConfigIgnoredVulnerability" -> parse_date(raw)
      [] OTHER -> raw

RemoveAt(lst, idx) ==
    [i \in 1..(Len(lst) - 1) |-> IF i < idx THEN lst[i] ELSE lst[i + 1]]

\* is_expired with < where the code has <=.
is_expired_strictly_before(ignored, now) ==
    LET until == Get(ignored.v, K_until)
    IN ~Falsy(until) /\ until.v < now

is_expired(ignored, now) ==
    LET until == Get(ignored.v, K_until)
    IN ~Falsy(until) /\ until.v <= now

RECURSIVE remove_expired_loop(_, _, _, _)
remove_expired_loop(lst, expired, idx, now) ==
    IF idx = 0 THEN [lst |-> lst, expired |-> expired]
    ELSE IF is_expired(lst[idx], now)
    THEN remove_expired_loop(RemoveAt(lst, idx), <<lst[idx]>> \o expired, idx - 1, now)
    ELSE remove_expired_loop(lst, expired, idx - 1, now)

\* remove_expired_elements with expired.append(ignored) where the code has
\* expired.insert(0, ignored).
remove_expired_elements_appending(lst, now) ==
    LET r == remove_expired_loop(lst, << >>, Len(lst), now)
    IN [lst |-> r.lst,
        expired |-> [i \in 1..Len(r.expired) |-> r.expired[Len(r.expired) + 1 - i]]]

\* [lst, expired]: what is left in lst, and the list returned.
remove_expired_elements(lst, now) ==
    remove_expired_loop(lst, << >>, Len(lst), now)

validate_ignored_paths(data, now) ==
    LET r == remove_expired_elements(data[Us(K_ignored_paths)].v, now)
    IN Put(Put(data, Us(K_ignored_paths), L(r.lst)),
           Us(K_outdated_ignored_paths), L(r.expired))

validate_ignored_policies(data, now) ==
    LET r == remove_expired_elements(data[Us(K_ignored_policies)].v, now)
    IN Put(Put(data, Us(K_ignored_policies), L(r.lst)),
           Us(K_outdated_ignored_policies), L(r.expired))

validate_ignored_vulns(data, now) ==
    LET r == remove_expired_elements(data[Us(K_ignored_vulnerabilities)].v, now)
    IN Put(data, Us(K_ignored_vulnerabilities), L(r.lst))

post_load(cls, data, now, utcoffset) ==
    CASE cls = "IaCConfig" -> validate_ignored_policies(validate_ignored_paths(data, now), now)
      [] cls = "SCAConfig" -> validate_ignored_vulns(data, now)
      [] cls \in {"IaCConfigIgnoredPath", "IaCConfigIgnoredPolicy",
                  "SCAConfigIgnoredVulnerability"} -> datetime_to_utc(data, utcoffset)
      [] OTHER -> data

RECURSIVE schema_load(_, _, _, _)
RECURSIVE field_load(_, _, _, _)
field_load(f, value, now, utcoffset) ==
    CASE f.ty = "bool" -> IF value.t = "bool" THEN Valid(value) ELSE Invalid
      [] f.ty = "int" -> IF value.t = "int" THEN Valid(value) ELSE Invalid
      [] f.ty = "str" ->
            IF value.t # "str" THEN Invalid
            ELSE IF f.cls = "policy" /\ ~validate_policy_id(value.v) THEN Invalid
            ELSE IF f.cls = "ghsa" /\ ~is_ghsa_valid(value.v) THEN Invalid
            ELSE Valid(value)
      [] f.ty = "optstr" -> IF value.t \in {"str", "null"} THEN Valid(value) ELSE Invalid
      [] f.ty = "optdatetime" ->
            IF value.t \in {"time", "naive", "null"} THEN Valid(value) ELSE Invalid
      [] f.ty = "strset" ->
            IF value.t = "list" /\ \A i \in 1..Len(value.v) : value.v[i].t = "str"
            THEN Valid(St({value.v[i] : i \in 1..Len(value.v)}))
            ELSE IF value.t = "set" /\ \A x \in value.v : x.t = "str"
            THEN Valid(value)
            ELSE Invalid
      [] f.ty = "list" ->
            IF value.t # "list" THEN Invalid
            ELSE LET items == [i \in 1..Len(value.v) |->
                                 schema_load(f.cls, value.v[i], now, utcoffset)]
                 IN IF \E i \in 1..Len(value.v) : ~items[i].ok
                    THEN Invalid
                    ELSE Valid(L([i \in 1..Len(value.v) |-> items[i].v]))
      [] f.ty = "nested" -> schema_load(f.cls, value, now, utcoffset)

\* cls.SCHEMA.load(raw): [ok, v]; not ok is marshmallow's ValidationError.
schema_load(cls, raw, now, utcoffset) ==
    LET pre == pre_load(cls, raw) IN
    IF pre.t # "dict" THEN Invalid
    ELSE
        LET fields == Fields(cls)
            data == filter_fields(cls, pre.v)
            res(name) ==
                IF name \in DOMAIN data THEN field_load(fields[name], data[name], now, utcoffset)
                ELSE IF fields[name].required THEN Invalid
                ELSE IF fields[name].ty = "nested"
                THEN schema_load(fields[name].cls, EmptyDict, now, utcoffset)
                ELSE Valid(fields[name].default)
            loaded == [name \in DOMAIN fields |-> res(name)]
        IN IF \E name \in DOMAIN fields : ~loaded[name].ok
           THEN Invalid
           ELSE Valid(D(post_load(cls, [name \in DOMAIN fields |-> loaded[name].v],
                                  now, utcoffset)))

(***************************************************************************)
(* user_config.py: loading                                                 *)
(***************************************************************************)
\* The three deprecation messages, as the parts of their text.
MigrateMessage(config_path) ==
    S(<<config_path, " uses a deprecated configuration file format.",
        " Run ggshield config migrate to migrate it to the latest version.">>)
AllPoliciesMessage ==
    S(<<"The all-policies option has been deprecated and is now ignored.">>)
IgnoreDefaultExcludeMessage ==
    S(<<"The ignore-default-exclude option has been deprecated and is now ignored.">>)

\* api_to_dashboard_url, on the API URLs of the model.
api_to_dashboard_url(api_url) ==
    CASE api_url = S("https://api.example.com") -> S("https://dashboard.example.com")
      [] api_url = S("https://api.gitguardian.com") -> S("https://dashboard.gitguardian.com")
      [] OTHER -> api_url

\* move_under_secret without the test that keeps a value the secret
\* section already defines.
move_under_secret_overriding(popped, value, secret_dct) ==
    IF secret_dct.t # "dict"
    THEN [exc |-> "TypeError", dct |-> Put(popped, K_secret, secret_dct)]
    ELSE [exc |-> "",
          dct |-> Put(popped, K_secret,
                      D(Put(secret_dct.v, IGNORE_KNOWN_SECRETS_KEY, value)))]

\* _fix_ignore_known_secrets, after the loop popped `value` (not None) and
\* left `popped`: [exc, dct].
move_under_secret(popped, value, secret_dct) ==
    IF secret_dct.t # "dict"
    THEN [exc |-> "TypeError", dct |-> Put(popped, K_secret, secret_dct)]
    ELSE IF Has(secret_dct.v, IGNORE_KNOWN_SECRETS_KEY)
            \/ Has(secret_dct.v, StrReplace(IGNORE_KNOWN_SECRETS_KEY, "-", "_"))
    THEN [exc |-> "", dct |-> Put(popped, K_secret, secret_dct)]
    ELSE [exc |-> "",
          dct |-> Put(popped, K_secret,
                      D(Put(secret_dct.v, IGNORE_KNOWN_SECRETS_KEY, value)))]

\* The second turn of the loop: the underscore key, on what the first turn left.
fix_underscore_key(data, underscore_key) ==
    IF Get(data, underscore_key) # Null
    THEN move_under_secret(Pop(data, underscore_key), data[underscore_key],
                           GetOr(data, K_secret, EmptyDict))
    ELSE [exc |-> "", dct |-> Pop(data, underscore_key)]

\* [exc, dct]: the mapping _fix_ignore_known_secrets leaves in `data`.
fix_ignore_known_secrets(data) ==
    IF Get(data, IGNORE_KNOWN_SECRETS_KEY) # Null
    THEN move_under_secret(Pop(data, IGNORE_KNOWN_SECRETS_KEY),
                           data[IGNORE_KNOWN_SECRETS_KEY],
                           GetOr(data, K_secret, EmptyDict))
    ELSE fix_underscore_key(Pop(data, IGNORE_KNOWN_SECRETS_KEY),
                            StrReplace(IGNORE_KNOWN_SECRETS_KEY, "-", "_"))

\* The list matches_ignore_to_dict leaves in place of `matches_ignore`.
hash_only_to_dict(matches_ignore) ==
    L([idx \in 1..Len(matches_ignore.v) |->
         IF matches_ignore.v[idx].t = "str"
         THEN D((K_name :> S("")) @@ (K_match :> matches_ignore.v[idx]))
         ELSE matches_ignore.v[idx]])

\* The mapping matches_ignore_to_dict leaves in `data`.
matches_ignore_to_dict(data) ==
    IF Falsy(Get(data, Us(K_matches_ignore))) \/ Get(data, Us(K_matches_ignore)).t # "list"
    THEN data
    ELSE Put(data, Us(K_matches_ignore), hash_only_to_dict(data[Us(K_matches_ignore)]))

\* copy_if_set reading the source with data.get: a null value is not copied.
copy_if_not_none(data, dct, dst_key, src_key) ==
    IF Get(data, src_key) # Null THEN Put(dct, dst_key, data[src_key]) ELSE dct

copy_if_set(data, dct, dst_key, src_key) ==
    IF Has(data, src_key) THEN Put(dct, dst_key, data[src_key]) ELSE dct

\* IgnoredMatch.from_dict(secret).to_dict(): [ok, v].
ignored_match_round_trip(secret) == schema_load("IgnoredMatch", secret, 0, 0)

\* api_url_to_instance without the test on an explicit instance.
api_url_overriding_instance(data) ==
    IF ~Has(data, K_api_url) THEN data
    ELSE Put(Pop(data, K_api_url), K_instance, api_to_dashboard_url(data[K_api_url]))

\* The api-url step of load_v1_dict.
api_url_to_instance(data) ==
    IF ~Has(data, K_api_url) THEN data
    ELSE IF Has(data, K_instance) THEN Pop(data, K_api_url)
    ELSE Put(Pop(data, K_api_url), K_instance, api_to_dashboard_url(data[K_api_url]))

\* v1_deprecation_messages testing the options' values instead of their
\* presence.
v1_deprecation_messages_if_true(data, deprecation_messages) ==
    (IF ~Falsy(Get(data, K_all_policies))
     THEN Append(deprecation_messages, AllPoliciesMessage)
     ELSE deprecation_messages)
    \o (IF ~Falsy(Get(data, K_ignore_default_excludes))
        THEN <<IgnoreDefaultExcludeMessage>>
        ELSE << >>)

\* The two deprecation tests of load_v1_dict.
v1_deprecation_messages(data, deprecation_messages) ==
    (IF Has(data, K_all_policies)
     THEN Append(deprecation_messages, AllPoliciesMessage)
     ELSE deprecation_messages)
    \o (IF Has(data, K_ignore_default_excludes)
        THEN <<IgnoreDefaultExcludeMessage>>
        ELSE << >>)

\* secret_dct["ignored-matches"], from the converted entries ([ok, v] each).
v1_ignored_matches(converted) ==
    replace_in_keys(L([i \in 1..Len(converted) |-> converted[i].v]), "_", "-")

\* secret_dct of load_v1_dict, given its "ignored-matches" part.
v1_secret_dct(data, secret_dct) ==
    copy_if_set(data,
        copy_if_set(data,
            copy_if_set(data, secret_dct, K_show_secrets, K_show_secrets),
            K_ignored_detectors, K_banlisted_detectors),
        K_ignored_paths, K_paths_ignore)

\* dct of load_v1_dict, given secret_dct.
v1_dct(data, secret_dct) ==
    copy_if_set(data,
        copy_if_set(data,
            copy_if_set(data,
                copy_if_set(data,
                    copy_if_set(data, K_secret :> D(secret_dct), K_instance, K_instance),
                    K_exit_zero, K_exit_zero),
                K_verbose, K_verbose),
            K_allow_self_signed, K_allow_self_signed),
        K_max_commits_for_hook, K_max_commits_for_hook)

\* load_v1_dict from the conversion of matches-ignore on: `converted` is
\* IgnoredMatch.from_dict(secret).to_dict() for each entry.
v1_convert(data, messages, converted) ==
    IF \E i \in 1..Len(converted) : ~converted[i].ok
    THEN [exc |-> "ValidationError", dct |-> data, deprecation_messages |-> messages]
    ELSE [exc |-> "",
          dct |-> v1_dct(data, v1_secret_dct(data, K_ignored_matches :> v1_ignored_matches(converted))),
          deprecation_messages |-> messages]

\* load_v1_dict after matches_ignore_to_dict.
v1_transform(data, messages) ==
    IF Falsy(Get(data, K_matches_ignore))
    THEN [exc |-> "", dct |-> v1_dct(data, v1_secret_dct(data, EmptyMap)),
          deprecation_messages |-> messages]
    ELSE IF data[K_matches_ignore].t # "list"
    THEN [exc |-> "ValidationError", dct |-> data, deprecation_messages |-> messages]
    ELSE v1_convert(data, messages,
                    [i \in 1..Len(data[K_matches_ignore].v) |->
                        ignored_match_round_trip(data[K_matches_ignore].v[i])])

\* v1_transform with the deprecation messages of `data` appended.
v1_checked(data, deprecation_messages) ==
    v1_transform(data, v1_deprecation_messages(data, deprecation_messages))

\* [exc, dct, deprecation_messages]
load_v1_dict(data, deprecation_messages) ==
    v1_checked(matches_ignore_to_dict(api_url_to_instance(data)), deprecation_messages)

with_messages(fixed, deprecation_messages) ==
    [exc |-> fixed.exc, dct |-> fixed.dct, deprecation_messages |-> deprecation_messages]

\* dispatch_version with the version test loosened: every version from 2 on
\* is read as the current format.
dispatch_version_from_2_on(config_path, config_version, dct, deprecation_messages) ==
    IF config_version.t \in {"int", "bool"} /\ AsInt(config_version) >= 2
    THEN with_messages(fix_ignore_known_secrets(dct), deprecation_messages)
    ELSE IF PyEq(config_version, I(1))
    THEN load_v1_dict(dct, Append(deprecation_messages, MigrateMessage(config_path)))
    ELSE [exc |-> "UnexpectedError", dct |-> dct, deprecation_messages |-> deprecation_messages]

\* _load_config_dict from config_version = dct.pop("version", 1) on.
dispatch_version(config_path, config_version, dct, deprecation_messages) ==
    IF PyEq(config_version, I(2))
    THEN with_messages(fix_ignore_known_secrets(dct), deprecation_messages)
    ELSE IF PyEq(config_version, I(1))
    THEN load_v1_dict(dct, Append(deprecation_messages, MigrateMessage(config_path)))
    ELSE [exc |-> "UnexpectedError", dct |-> dct, deprecation_messages |-> deprecation_messages]

\* _load_config_dict after replace_in_keys.
pop_version(config_path, dct, deprecation_messages) ==
    dispatch_version(config_path, GetOr(dct, K_version, I(1)), Pop(dct, K_version),
                     deprecation_messages)

\* loaded_config_dict with an empty mapping, not {version: 2}, in place of
\* what a missing file gives.
loaded_config_dict_without_version(config_path, loaded, deprecation_messages) ==
    IF loaded.exc # ""
    THEN [exc |-> "ParseError", dct |-> EmptyMap, deprecation_messages |-> deprecation_messages]
    ELSE pop_version(config_path,
                     replace_in_keys(IF Falsy(loaded.ret) THEN EmptyDict ELSE loaded.ret,
                                     "_", "-").v,
                     deprecation_messages)

\* _load_config_dict after load_yaml_dict returned or raised.
loaded_config_dict(config_path, loaded, deprecation_messages) ==
    IF loaded.exc # ""
    THEN [exc |-> "ParseError", dct |-> EmptyMap, deprecation_messages |-> deprecation_messages]
    ELSE pop_version(config_path,
                     replace_in_keys(IF Falsy(loaded.ret)
                                     THEN D(K_version :> I(CURRENT_CONFIG_VERSION))
                                     ELSE loaded.ret, "_", "-").v,
                     deprecation_messages)

\* [exc, dct, deprecation_messages]
load_config_dict(config_path, file, deprecation_messages) ==
    loaded_config_dict(config_path, load_yaml_dict(file), deprecation_messages)

\* UserConfig.from_dict(data); the dataclass default of deprecation_messages.
loaded_user_config(r) ==
    IF r.ok
    THEN Valid(D(Put(r.v.v, Us(K_deprecation_messages), L(<< >>))))
    ELSE Invalid

from_dict(data, now, utcoffset) ==
    loaded_user_config(schema_load("UserConfig", D(data), now, utcoffset))

\* [exc, user_config]
validated(r) ==
    IF r.ok THEN [exc |-> "", user_config |-> r.v]
    ELSE [exc |-> "ParseError", user_config |-> Null]

from_config_dict(data, now, utcoffset) == validated(from_dict(data, now, utcoffset))

Paths == {"global", "local"}
NoPath == "None"
DEFAULT_LOCAL_CONFIG_PATH == "local"

\* find_global_config_path / find_local_config_path: the path when the file exists.
find_global_config_path(fs) == IF fs["global"] # Missing THEN "global" ELSE NoPath
find_local_config_path(fs) == IF fs["local"] # Missing THEN "local" ELSE NoPath

NoLayer == [exc |-> "", dct |-> EmptyMap, deprecation_messages |-> << >>]

\* What load returns, [exc, user_config, config_path], with the locals of the
\* call: global_layer and local_layer (what _load_config_dict returned for
\* each file read) and user_config_dict (the mapping handed on to
\* from_config_dict).  `raised` is the exception of the steps before
\* from_config_dict, `made` what from_config_dict returned.
load_return(raised, made, deprecation_messages, config_path, global_layer, local_layer, dct) ==
    IF raised # "" \/ made.exc # ""
    THEN [exc |-> IF raised # "" THEN raised ELSE made.exc,
          user_config |-> Null, config_path |-> NoPath,
          global_layer |-> global_layer, local_layer |-> local_layer,
          user_config_dict |-> dct]
    ELSE [exc |-> "",
          user_config |-> D(Put(made.user_config.v, Us(K_deprecation_messages),
                                L(deprecation_messages))),
          config_path |-> config_path,
          global_layer |-> global_layer, local_layer |-> local_layer,
          user_config_dict |-> dct]

\* load with config_path given.
load_custom(config_path, layer, now, utcoffset) ==
    load_return(layer.exc, from_config_dict(layer.dct, now, utcoffset),
                layer.deprecation_messages,
                config_path, NoLayer, layer, layer.dct)

\* A list of ignored matches cut down to the first entry of every match value.
unique_matches(lst) ==
    LET SameMatch(a, b) ==
            /\ a.t = "dict" /\ b.t = "dict"
            /\ Has(a.v, K_match) /\ Has(b.v, K_match)
            /\ a.v[K_match] = b.v[K_match]
        kept[i \in 0..Len(lst)] ==
            IF i = 0 THEN << >>
            ELSE IF \E j \in 1..(i - 1) : SameMatch(lst[j], lst[i]) THEN kept[i - 1]
            ELSE Append(kept[i - 1], lst[i])
    IN kept[Len(lst)]

\* load_merged on a merged mapping whose secret.ignored-matches list holds
\* every match value once.
load_merged_unique_matches(fs, now, utcoffset, global_layer, local_layer, merged) ==
    LET dct == merged.v.v
        secret == GetOr(dct, K_secret, EmptyDict)
        matches == IF secret.t = "dict" THEN Get(secret.v, K_ignored_matches) ELSE Null
        unique == IF matches.t = "list"
                  THEN Put(dct, K_secret,
                           D(Put(secret.v, K_ignored_matches, L(unique_matches(matches.v)))))
                  ELSE dct
    IN load_return(merged.exc, from_config_dict(unique, now, utcoffset),
                   local_layer.deprecation_messages,
                   IF find_local_config_path(fs) # NoPath
                   THEN find_local_config_path(fs)
                   ELSE DEFAULT_LOCAL_CONFIG_PATH,
                   global_layer, local_layer, unique)

\* load without config_path, from from_config_dict on.
load_merged(fs, now, utcoffset, global_layer, local_layer, merged) ==
    load_return(merged.exc, from_config_dict(merged.v.v, now, utcoffset),
                local_layer.deprecation_messages,
                IF find_local_config_path(fs) # NoPath
                THEN find_local_config_path(fs)
                ELSE DEFAULT_LOCAL_CONFIG_PATH,
                global_layer, local_layer, merged.v.v)

\* load_local_merge with the layers merged the other way round: the global
\* mapping is merged into the local one.
load_global_over_local(fs, now, utcoffset, global_layer, merged, local_layer) ==
    load_merged(fs, now, utcoffset, global_layer, local_layer,
                IF merged.exc # "" THEN merged
                ELSE IF local_layer.exc # "" THEN [exc |-> local_layer.exc, v |-> merged.v]
                ELSE IF find_local_config_path(fs) # NoPath
                THEN update_dict_from_other(D(local_layer.dct), merged.v.v)
                ELSE merged)

\* The second update_dict_from_other of load; an exception raised before it
\* ends the call.
load_local_merge(fs, now, utcoffset, global_layer, merged, local_layer) ==
    load_merged(fs, now, utcoffset, global_layer, local_layer,
                IF merged.exc # "" THEN merged
                ELSE IF local_layer.exc # "" THEN [exc |-> local_layer.exc, v |-> merged.v]
                ELSE IF find_local_config_path(fs) # NoPath
                THEN update_dict_from_other(merged.v, local_layer.dct)
                ELSE merged)

\* The local file of load.
load_local(fs, now, utcoffset, global_layer, merged) ==
    load_local_merge(fs, now, utcoffset, global_layer, merged,
                     IF find_local_config_path(fs) # NoPath /\ merged.exc = ""
                     THEN load_config_dict(find_local_config_path(fs),
                                           fs[find_local_config_path(fs)],
                                           global_layer.deprecation_messages)
                     ELSE [NoLayer EXCEPT
                              !.deprecation_messages = global_layer.deprecation_messages])

\* The first update_dict_from_other of load.
load_global_merge(fs, now, utcoffset, global_layer) ==
    load_local(fs, now, utcoffset, global_layer,
               IF find_global_config_path(fs) # NoPath /\ global_layer.exc = ""
               THEN update_dict_from_other(EmptyDict, global_layer.dct)
               ELSE [exc |-> global_layer.exc, v |-> EmptyDict])

\* load without config_path: the global file, then the local file.
load_layers(fs, now, utcoffset) ==
    load_global_merge(fs, now, utcoffset,
                      IF find_global_config_path(fs) # NoPath
                      THEN load_config_dict(find_global_config_path(fs),
                                            fs[find_global_config_path(fs)], << >>)
                      ELSE NoLayer)

\* UserConfig.load(config_path) on the files fs at time now, on a machine
\* whose local time is utcoffset ahead of UTC.
load(config_path, fs, now, utcoffset) ==
    IF config_path # NoPath
    THEN load_custom(config_path, load_config_dict(config_path, fs[config_path], << >>),
                     now, utcoffset)
    ELSE load_layers(fs, now, utcoffset)

(***************************************************************************)
(* user_config.py: saving                                                  *)
(***************************************************************************)
\* A schema built without the exclude argument.
SCHEMA_without_exclude == {}

\* The exclude list of UserConfig.SCHEMA, as paths of field names.
SCHEMA_exclude ==
    { <<Us(K_deprecation_messages)>>,
      <<K_iac, Us(K_outdated_ignored_paths)>>,
      <<K_iac, Us(K_outdated_ignored_policies)>> }

\* UserConfig.SCHEMA.dump: the fields not excluded, at every depth.  A set and
\* a datetime are dumped to a value that loads back as the same set and the
\* same instant; the order a set is written in is not modelled.
RECURSIVE schema_dump(_, _)
schema_dump(value, prefix) ==
    IF value.t = "dict"
    THEN D([name \in {n \in DOMAIN value.v : Append(prefix, n) \notin SCHEMA_exclude} |->
               schema_dump(value.v[name], Append(prefix, name))])
    ELSE value

\* self.to_dict(): the mapping UserConfig.SCHEMA dumps.
to_dict(user_config) == schema_dump(user_config, << >>).v

\* UserConfig.from_dict({}).to_dict()
default_dct == to_dict(from_dict(EmptyMap, 0, 0).v)

\* to_config_dict without the dct["version"] assignment.
to_config_dict_without_version(user_config) ==
    replace_in_keys(D(remove_common_dict_items(to_dict(user_config), default_dct)), "_", "-")

\* to_config_dict without the call of remove_common_dict_items.
to_config_dict_without_diff(user_config) ==
    replace_in_keys(D(Put(to_dict(user_config), K_version, I(CURRENT_CONFIG_VERSION))), "_", "-")

to_config_dict(user_config) ==
    LET dct == to_dict(user_config)
        diff == remove_common_dict_items(dct, default_dct)
        stamped == Put(diff, K_version, I(CURRENT_CONFIG_VERSION))
    IN replace_in_keys(D(stamped), "_", "-")

\* The text save_yaml_dict writes, as the value yaml.safe_load reads back.
save(user_config) == to_config_dict(user_config)

\* add_ignored_match without the test on the name of the entry found.
add_ignored_match_renaming(ignored_matches, secret) ==
    LET same == {i \in 1..Len(ignored_matches) :
                    ignored_matches[i].v[K_match] = secret.v[K_match]}
        first == CHOOSE i \in same : \A j \in same : i <= j
    IN IF same = {} THEN Append(ignored_matches, secret)
       ELSE [ignored_matches EXCEPT ![first] =
                D(Put(ignored_matches[first].v, K_name, secret.v[K_name]))]

\* SecretConfig.add_ignored_match: the list it leaves in ignored_matches.
add_ignored_match(ignored_matches, secret) ==
    LET same == {i \in 1..Len(ignored_matches) :
                    ignored_matches[i].v[K_match] = secret.v[K_match]}
        first == CHOOSE i \in same : \A j \in same : i <= j
    IN IF same = {} THEN Append(ignored_matches, secret)
       ELSE IF Falsy(ignored_matches[first].v[K_name])
       THEN [ignored_matches EXCEPT ![first] =
                D(Put(ignored_matches[first].v, K_name, secret.v[K_name]))]
       ELSE ignored_matches

(***************************************************************************)
(* Configuration files of the model                                        *)
(***************************************************************************)
MaxNow == 1
MaxLen == 2
MaxSaves == 1
MaxAdds == 2
MaxUtcOffset == 1

WithVersion(version, m) == D(Put(m, K_version, version))
OptionalKey(key, values) == {EmptyMap} \cup {key :> x : x \in values}
SeqsUpTo(S0, n) == UNION {[1..k -> S0] : k \in 0..n}

\* A v1 file that draws two deprecation messages, and a plain v2 file.
DeprecatedFile == D((K_all_policies :> B(TRUE)) @@ (K_verbose :> B(TRUE)))
PlainFile == WithVersion(I(2), K_verbose :> B(TRUE))

\* Dispatch on version.
VersionBodies ==
    { EmptyMap,
      K_verbose :> B(TRUE),
      (K_all_policies :> B(TRUE)) @@ (K_exit_zero :> B(TRUE)) }

VersionFiles ==
    {D(body) : body \in VersionBodies}
    \cup {WithVersion(version, body) :
            version \in {I(1), I(2), I(3), I(0), B(TRUE)}, body \in VersionBodies}

\* Top-level values that are no mapping, and text that is no YAML.
NonMappingFiles ==
    { Null, L(<< >>), L(<<S("a")>>), I(0), I(1), B(FALSE), B(TRUE), S(""), S("x"),
      St({}), St({S("a")}), BadYaml, EmptyDict, PlainFile }

\* v1 files.
IgnoredMatchEntries ==
    { S("hash1"),
      D((K_name :> S("name1")) @@ (K_match :> S("hash1"))),
      D((K_name :> S("")) @@ (K_match :> S("hash2"))) }

V1Files ==
    {D(m) : m \in OptionalKey(K_matches_ignore,
                              {L(q) : q \in SeqsUpTo(IgnoredMatchEntries, MaxLen)})}

\* v1 files by their keys: api-url and instance, the two deprecated options,
\* the keys load_v1_dict copies and keys it does not know.
V1ApiParts ==
    { EmptyMap,
      K_api_url :> S("https://api.example.com"),
      Us(K_api_url) :> S("https://api.gitguardian.com"),
      (K_api_url :> S("https://api.example.com")) @@ (K_instance :> S("https://custom")),
      K_instance :> S("https://custom") }

V1DeprecatedParts ==
    { EmptyMap,
      K_all_policies :> B(TRUE),
      K_ignore_default_excludes :> B(FALSE),
      (Us(K_all_policies) :> Null) @@ (K_ignore_default_excludes :> B(TRUE)) }

V1CopiedParts ==
    { EmptyMap,
      (K_show_secrets :> B(TRUE)) @@ (K_banlisted_detectors :> L(<<S("d1")>>))
          @@ (K_paths_ignore :> L(<<S("a")>>)) @@ (K_exit_zero :> Null),
      K_matches_ignore :> L(<< >>),
      (K_matches_ignore :> L(<<D((K_name :> S("name1")) @@ (K_match :> S("hash1")))>>))
          @@ (K_verbose :> B(TRUE)) @@ (K_allow_self_signed :> B(FALSE))
          @@ (K_max_commits_for_hook :> I(0)) @@ (K_debug :> B(TRUE))
          @@ (K_iac :> EmptyDict) }

V1KeyFiles ==
    {D(m1 @@ m2 @@ m3) :
        m1 \in V1ApiParts, m2 \in V1DeprecatedParts, m3 \in V1CopiedParts}

\* v2 files with ignore-known-secrets at the root and/or under secret.
KnownSecretsFiles ==
    {WithVersion(I(2), m1 @@ m2) :
        m1 \in OptionalKey(IGNORE_KNOWN_SECRETS_KEY, {B(TRUE), B(FALSE), Null}),
        m2 \in OptionalKey(K_secret,
                 {D(m3) : m3 \in OptionalKey(IGNORE_KNOWN_SECRETS_KEY,
                                              {B(TRUE), B(FALSE), Null})})}
    \cup {WithVersion(I(2), Us(IGNORE_KNOWN_SECRETS_KEY) :> B(TRUE))}

\* v2 files with ignore rules that carry an `until`.
Untils == {Null, T(1), T(2)}
IgnoredPathRule(until) == D((K_path :> S("dir")) @@ (K_until :> until))
IgnoredPolicyRule(until) == D((K_policy :> S("GG_IAC_0001")) @@ (K_until :> until))
IgnoredVulnerabilityRule(until) ==
    D((K_identifier :> S("GHSA-aaaa-bbbb-cccc")) @@ (K_path :> S("Pipfile"))
      @@ (K_until :> until))

\* The path rules carry a comment that tells them apart.
RuleComments == <<"first", "second", "third", "fourth">>
ExpiryFile(paths, others) ==
    WithVersion(I(2),
        (K_iac :> D((K_ignored_paths :>
                        L([i \in 1..Len(paths) |->
                             D(Put(IgnoredPathRule(paths[i]).v, K_comment,
                                   S(RuleComments[i])))]))
                    @@ (K_ignored_policies :>
                        L([i \in 1..Len(others) |-> IgnoredPolicyRule(others[i])]))))
        @@ (K_sca :> D(K_ignored_vulnerabilities :>
                        L([i \in 1..Len(others) |-> IgnoredVulnerabilityRule(others[i])]))))

ExpiryFiles ==
    {ExpiryFile(paths, others) :
        paths \in SeqsUpTo(Untils, MaxLen), others \in {<< >>, <<T(1)>>}}

\* v2 files whose ignore rules carry a bare calendar date, and the time zones
\* of the machine.
DateUntils == {Dt(0), Dt(1), T(1)}
DateFiles ==
    {ExpiryFile(paths, others) :
        paths \in SeqsUpTo(DateUntils, MaxLen), others \in {<< >>, <<Dt(0)>>}}
UtcOffsets == (0 - MaxUtcOffset)..MaxUtcOffset

\* Nested structures of mappings and lists of mappings, handed to
\* replace_in_keys: keys with "_", with "-" and with neither.
RewrittenKeys == {<<"a", "_", "b">>, <<"a", "-", "b">>, <<"c">>}
InnerMappings ==
    {EmptyDict}
    \cup {D(k :> I(1)) : k \in RewrittenKeys}
    \cup {D((<<"a", "_", "b">> :> I(1)) @@ (<<"a", "-", "b">> :> I(2)))}
ListsOfMappings == {L(q) : q \in SeqsUpTo(InnerMappings, MaxLen)}
KeyStructures ==
    {D(k :> x) : k \in RewrittenKeys, x \in {I(1)} \cup InnerMappings \cup ListsOfMappings}
    \cup {D((<<"a", "_", "b">> :> x) @@ (<<"c">> :> y)) :
             x \in InnerMappings, y \in ListsOfMappings}
    \cup {D((<<"a", "_", "b">> :> x) @@ (<<"a", "-", "b">> :> y)) :
             x, y \in {I(1), I(2), D(<<"a", "_", "b">> :> I(1))}}
    \cup ListsOfMappings

\* Mappings of scalars, lists, sets and nested mappings handed to
\* update_dict_from_other, each once as src with an empty dst and once as
\* dst with an empty src.
MergedValues ==
    { I(0), B(FALSE), S("x"), Null,
      L(<< >>), L(<<S("d1")>>), L(<<D(K_name :> Null)>>),
      St({}), St({S("a")}),
      EmptyDict, D(K_verbose :> B(TRUE)), D(K_verbose :> Null),
      D(K_secret :> D((K_show_secrets :> B(TRUE)) @@ (K_name :> Null))) }
MergedMappings ==
    {EmptyMap}
    \cup {K_instance :> x : x \in MergedValues}
    \cup {(K_instance :> x) @@ (K_secret :> y) : x, y \in MergedValues}
MergeArgs ==
    {[dst |-> EmptyDict, src |-> m] : m \in MergedMappings}
    \cup {[dst |-> D(m), src |-> EmptyMap] : m \in MergedMappings}

\* v2 files whose layers overlap: scalars, lists, sets, nested mappings, nulls.
MergeFiles ==
    { WithVersion(I(2), K_instance :> S("x")),
      WithVersion(I(2), (K_instance :> S("y")) @@ (K_max_commits_for_hook :> I(0))
                        @@ (K_secret :> D(K_show_secrets :> B(FALSE)))),
      WithVersion(I(2), (K_instance :> Null) @@ (K_verbose :> B(TRUE))
                        @@ (K_secret :> D((K_show_secrets :> B(TRUE))
                                          @@ (K_ignored_detectors :> L(<<S("d1")>>))
                                          @@ (K_ignored_paths :> St({S("a")}))))),
      WithVersion(I(2), (K_verbose :> B(FALSE)) @@ (K_max_commits_for_hook :> I(0))
                        @@ (K_secret :> D((K_show_secrets :> Null)
                                          @@ (K_ignored_detectors :> L(<<S("d2")>>))
                                          @@ (K_ignored_paths :> St({S("a"), S("b")}))))),
      WithVersion(I(2), K_secret :> D(K_ignored_matches :>
                        L(<<D((K_name :> S("")) @@ (K_match :> S("hash1")))>>))),
      WithVersion(I(2), (K_secret :> D((K_ignored_matches :>
                        L(<<D((K_name :> S("name1")) @@ (K_match :> S("hash1"))),
                            D((K_name :> S("name2")) @@ (K_match :> S("hash2")))>>))
                          @@ (K_ignored_detectors :> L(<<S("d1")>>))))
                        @@ (K_iac :> D(K_ignored_paths :> L(<<S("file")>>)))),
      WithVersion(I(2), (K_secret :> D(K_ignored_detectors :> L(<<S("d2")>>)))
                        @@ (K_iac :> D((K_ignored_paths :> L(<<IgnoredPathRule(Null)>>))
                                       @@ (K_minimum_severity :> S("HIGH"))))),
      WithVersion(I(2), K_secret :> EmptyDict) }

\* Secrets handed to add_ignored_match.
Secrets ==
    { D((K_name :> S("name2")) @@ (K_match :> S("hash1"))),
      D((K_name :> S("")) @@ (K_match :> S("hash3"))) }

(***************************************************************************)
(* State machine                                                           *)
(***************************************************************************)
VARIABLES
    files,          \* path -> content of the file, or Missing
    now,            \* the clock (datetime.now)
    user_config,    \* the UserConfig of the last load, Null before any
    config_path,    \* the path the last load returned
    exc,            \* the exception the last load raised, "" if none
    call,           \* the arguments and locals of the last load
    last_op,        \* the last operation
    written,        \* the paths save has written
    saves,          \* number of saves so far
    adds,           \* number of add_ignored_match calls so far
    utcoffset,      \* the machine's time zone: local time minus UTC, in ticks
    arg,            \* the argument of a function of utils.py called on its own
    ret             \* what its calls returned, in order

vars ==
    <<files, now, user_config, config_path, exc, call, last_op, written, saves, adds,
      utcoffset, arg, ret>>

NoCall ==
    [config_path |-> NoPath, now |-> 0, files |-> [p \in Paths |-> Missing],
     global_layer |-> NoLayer, local_layer |-> NoLayer, user_config_dict |-> EmptyMap]

\* The files on disk and the machine's time zone before the first run.
InitIn(globals, locals, utcoffsets) ==
    /\ files \in {("global" :> g) @@ ("local" :> l) : g \in globals, l \in locals}
    /\ utcoffset \in utcoffsets
    /\ now = 0
    /\ user_config = Null
    /\ config_path = NoPath
    /\ exc = ""
    /\ call = NoCall
    /\ last_op = "init"
    /\ written = {}
    /\ saves = 0
    /\ adds = 0

\* On a machine whose local time is UTC.
InitWith(globals, locals) ==
    /\ InitIn(globals, locals, {0})
    /\ arg = Null
    /\ ret = << >>

\* Before a function of utils.py is called on its own with an argument of args.
InitCall(args) ==
    /\ InitIn({Missing}, {Missing}, {0})
    /\ arg \in args
    /\ ret = << >>

\* The state after load(path) returned r.
Loaded(path, r) ==
    /\ user_config' = r.user_config
    /\ config_path' = r.config_path
    /\ exc' = r.exc
    /\ call' = [config_path |-> path, now |-> now, files |-> files,
                global_layer |-> r.global_layer, local_layer |-> r.local_layer,
                user_config_dict |-> r.user_config_dict]
    /\ last_op' = "load"
    /\ UNCHANGED <<files, now, written, saves, adds, utcoffset, arg, ret>>

\* A run of the tool starts with UserConfig.load(path); path is NoPath for load().
Load(path) ==
    /\ last_op \in {"init", "tick", "save"}
    /\ Loaded(path, load(path, files, now, utcoffset))

\* user_config.save(config_path), with the path load returned.
Save ==
    /\ last_op \in {"load", "add_ignored_match"}
    /\ user_config # Null
    /\ saves < MaxSaves
    /\ files' = [files EXCEPT ![config_path] = save(user_config)]
    /\ written' = written \cup {config_path}
    /\ saves' = saves + 1
    /\ last_op' = "save"
    /\ UNCHANGED <<now, user_config, config_path, exc, call, adds, utcoffset, arg, ret>>

\* user_config.secret.add_ignored_match(secret)
AddIgnoredMatch(secret) ==
    /\ last_op \in {"load", "add_ignored_match"}
    /\ user_config # Null
    /\ adds < MaxAdds
    /\ LET secret_config == user_config.v[K_secret]
           lst == add_ignored_match(secret_config.v[Us(K_ignored_matches)].v, secret)
       IN user_config' =
            D(Put(user_config.v, K_secret,
                  D(Put(secret_config.v, Us(K_ignored_matches), L(lst)))))
    /\ adds' = adds + 1
    /\ last_op' = "add_ignored_match"
    /\ UNCHANGED <<files, now, config_path, exc, call, written, saves, utcoffset, arg, ret>>

\* Time passes between two runs of the tool.
Tick ==
    /\ last_op \in {"init", "tick", "save"}
    /\ now < MaxNow
    /\ now' = now + 1
    /\ last_op' = "tick"
    /\ UNCHANGED <<files, user_config, config_path, exc, call, written, saves, adds,
                   utcoffset, arg, ret>>

\* replace_in_keys(data, "_", "-") on a structure of its own.
HyphenateKeys ==
    /\ last_op = "init"
    /\ arg # Null
    /\ ret' = <<replace_in_keys(arg, "_", "-")>>
    /\ last_op' = "hyphenate"
    /\ UNCHANGED <<files, now, user_config, config_path, exc, call, written, saves, adds,
                   utcoffset, arg>>

\* replace_in_keys(data, "-", "_") on what HyphenateKeys left.
UnderscoreKeys ==
    /\ last_op = "hyphenate"
    /\ ret' = Append(ret, replace_in_keys(ret[1], "-", "_"))
    /\ last_op' = "underscore"
    /\ UNCHANGED <<files, now, user_config, config_path, exc, call, written, saves, adds,
                   utcoffset, arg>>

NextKeys == HyphenateKeys \/ UnderscoreKeys

\* update_dict_from_other(dst, src) on mappings of its own.
UpdateDictFromOther ==
    /\ last_op = "init"
    /\ ret' = <<update_dict_from_other(arg.dst, arg.src)>>
    /\ last_op' = "update_dict_from_other"
    /\ UNCHANGED <<files, now, user_config, config_path, exc, call, written, saves, adds,
                   utcoffset, arg>>

NextUpdate == UpdateDictFromOther

Next ==
    \/ \E path \in Paths \cup {NoPath} : Load(path)
    \/ Save
    \/ \E secret \in Secrets : AddIgnoredMatch(secret)
    \/ Tick

InitVersion == InitWith({Missing, DeprecatedFile}, VersionFiles \cup {Missing})
InitNonMapping == InitWith({Missing, DeprecatedFile}, NonMappingFiles \cup {Missing})
InitV1 == InitWith({Missing, DeprecatedFile}, V1Files \cup {Missing})
InitV1Keys == InitWith({Missing, DeprecatedFile}, V1KeyFiles \cup {Missing})
InitKnownSecrets ==
    InitWith({Missing, DeprecatedFile,
              WithVersion(I(2), IGNORE_KNOWN_SECRETS_KEY :> B(TRUE)),
              WithVersion(I(2), K_secret :> D(IGNORE_KNOWN_SECRETS_KEY :> B(FALSE)))},
             KnownSecretsFiles \cup {Missing})
InitExpiry ==
    InitWith({Missing, DeprecatedFile, ExpiryFile(<<T(1), Null>>, <<T(1)>>)},
             ExpiryFiles \cup {Missing})
InitDates ==
    /\ InitIn({Missing}, DateFiles \cup {Missing}, UtcOffsets)
    /\ arg = Null
    /\ ret = << >>
InitKeys == InitCall(KeyStructures)
InitUpdate == InitCall(MergeArgs)
InitMerge == InitWith(MergeFiles \cup {Missing}, MergeFiles \cup {Missing})

SpecVersion == InitVersion /\ [][Next]_vars
SpecNonMapping == InitNonMapping /\ [][Next]_vars
SpecV1 == InitV1 /\ [][Next]_vars
SpecV1Keys == InitV1Keys /\ [][Next]_vars
SpecKnownSecrets == InitKnownSecrets /\ [][Next]_vars
SpecExpiry == InitExpiry /\ [][Next]_vars
SpecDates == InitDates /\ [][Next]_vars
SpecKeys == InitKeys /\ [][NextKeys]_vars
SpecUpdate == InitUpdate /\ [][NextUpdate]_vars
SpecMerge == InitMerge /\ [][Next]_vars

(***************************************************************************)
(* Properties                                                              *)
(***************************************************************************)
\* The files the last load read, and what _load_config_dict made of each.
WasRead(p) ==
    /\ last_op = "load"
    /\ call.files[p] # Missing
    /\ \/ call.config_path = p
       \/ call.config_path = NoPath /\ (p = "global" \/ call.global_layer.exc = "")
LayerOf(p) ==
    IF call.config_path = NoPath /\ p = "global" THEN call.global_layer ELSE call.local_layer
MessagesBefore(p) ==
    IF call.config_path = NoPath /\ p = "local"
    THEN call.global_layer.deprecation_messages
    ELSE << >>
HyphenKeys(file) == replace_in_keys(file, "_", "-").v
Count(seq, x) == Cardinality({i \in DOMAIN seq : seq[i] = x})
Outcome(r) == [exc |-> r.exc, dct |-> r.dct]

C1_Dispatch(p) ==
    LET m == HyphenKeys(call.files[p])
        version == GetOr(m, K_version, I(1))
        layer == LayerOf(p)
    IN IF version = I(2)
       THEN /\ layer.deprecation_messages = MessagesBefore(p)
            /\ Outcome(layer) = fix_ignore_known_secrets(Pop(m, K_version))
       ELSE /\ Count(layer.deprecation_messages, MigrateMessage(p)) = 1
            /\ Outcome(layer) =
                 Outcome(load_v1_dict(Pop(m, K_version),
                                      Append(MessagesBefore(p), MigrateMessage(p))))

\* C1: every existing file whose top-level value is a mapping is dispatched
\* on its version key, 1 when absent: version 2 gets the known-secrets
\* fix-up only and adds no deprecation notice; version 1 or no version
\* (whatever else the mapping holds, nothing included) gets the v1 transform
\* and exactly one notice to run the migration command.
C1_VersionDispatch ==
    \A p \in Paths :
        (/\ WasRead(p)
         /\ call.files[p].t = "dict"
         /\ GetOr(call.files[p].v, K_version, I(1)) \in {I(1), I(2)})
        => C1_Dispatch(p)

C2_Entry(e) ==
    IF e.t = "str" THEN D((K_name :> S("")) @@ (K_match :> e)) ELSE e

\* C2: a v1 mapping whose matches-ignore list holds bare strings and
\* mappings is transformed without error, and secret.ignored-matches has the
\* same length and order, each bare string s turned into {name: "", match: s}
\* and each mapping entry unchanged.
C2_MatchesIgnore ==
    \A p \in Paths :
        (/\ WasRead(p)
         /\ call.files[p].t = "dict"
         /\ ~Has(call.files[p].v, K_version)
         /\ Has(call.files[p].v, K_matches_ignore)
         /\ Len(call.files[p].v[K_matches_ignore].v) > 0)
        => LET entries == call.files[p].v[K_matches_ignore].v
               layer == LayerOf(p)
           IN /\ layer.exc = ""
              /\ Has(layer.dct, K_secret)
              /\ Has(layer.dct[K_secret].v, K_ignored_matches)
              /\ layer.dct[K_secret].v[K_ignored_matches] =
                    L([i \in 1..Len(entries) |-> C2_Entry(entries[i])])

UnknownVersion(file) ==
    /\ file.t = "dict"
    /\ Has(file.v, K_version)
    /\ file.v[K_version].t = "int"
    /\ file.v[K_version].v \notin {1, 2}

\* C4 (as the code has it): loading a file whose version is an integer
\* other than 1 or 2 fails with an UnexpectedError; no configuration and no
\* path are returned, so no deprecation notice is kept.
C4_UnknownVersionUnexpectedError ==
    \A p \in Paths :
        (WasRead(p) /\ UnknownVersion(call.files[p]))
        => /\ LayerOf(p).exc = "UnexpectedError"
           /\ exc = "UnexpectedError"
           /\ user_config = Null
           /\ config_path = NoPath

\* C4 witness: a layered load whose global file drew deprecation notices and
\* whose local file has version 3 has failed.
C4_Witness ==
    /\ WasRead("local")
    /\ call.config_path = NoPath
    /\ call.global_layer.deprecation_messages # << >>
    /\ UnknownVersion(call.files["local"])
    /\ exc = "UnexpectedError"
    /\ user_config = Null

\* C4 as stated: loading a file whose version is an integer other than 1 or
\* 2 fails with a ParseError.
C4_UnknownVersionParseError ==
    \A p \in Paths :
        (WasRead(p) /\ UnknownVersion(call.files[p]))
        => exc = "ParseError" /\ user_config = Null

\* C5: every existing file whose parsed top-level value is not a mapping,
\* sequence or scalar, empty or not, makes load fail with a ParseError and
\* return no configuration.
C5_NonMappingFails ==
    \A p \in Paths :
        (WasRead(p) /\ call.files[p].t \in {"list", "set", "int", "bool", "str"})
        => exc = "ParseError" /\ user_config = Null

\* A mapping is read with dict.get: a key whose value is null reads like a
\* key that is absent.
RECURSIVE SameReading(_, _)
SameReading(a, b) ==
    IF a.t = "dict" /\ b.t = "dict"
    THEN \A k \in DOMAIN a.v \cup DOMAIN b.v : SameReading(Get(a.v, k), Get(b.v, k))
    ELSE a = b

Kind(x) == IF x.t \in {"null", "list", "set", "dict"} THEN x.t ELSE "scalar"

\* The layers hold values of the same kind wherever both define a key, or the
\* local value is a scalar.
RECURSIVE SameKinds(_, _)
SameKinds(g, l) ==
    \A k \in DOMAIN g \cap DOMAIN l :
        \/ Kind(g[k]) = "null"
        \/ Kind(l[k]) \in {"null", "scalar"}
        \/ Kind(g[k]) = Kind(l[k])
           /\ (Kind(g[k]) = "dict" => SameKinds(g[k].v, l[k].v))

RECURSIVE C3_Merged(_, _, _)
C3_Merged(g, l, r) ==
    \A k \in DOMAIN g \cup DOMAIN l \cup DOMAIN r :
        LET gv == Get(g, k)
            lv == Get(l, k)
            rv == Get(r, k)
        IN CASE lv = Null -> SameReading(rv, gv)
             [] lv # Null /\ gv = Null -> SameReading(rv, lv)
             [] lv.t = "list" /\ gv.t = "list" -> rv = L(gv.v \o lv.v)
             [] lv.t = "set" /\ gv.t = "set" -> rv = St(gv.v \cup lv.v)
             [] lv.t = "dict" /\ gv.t = "dict" -> rv.t = "dict" /\ C3_Merged(gv.v, lv.v, rv.v)
             [] OTHER -> rv = lv

LayeredLoad ==
    /\ last_op = "load"
    /\ call.config_path = NoPath
    /\ call.global_layer.exc = ""
    /\ call.local_layer.exc = ""

\* C3: in a load without explicit path, at every key of every depth the
\* mapping handed to validation holds: the global list followed by the local
\* list, the union of the two sets, the recursive merge of the two mappings,
\* the local scalar (false and 0 included) in place of the global value; a
\* key only one layer defines keeps that layer's value, and a null local
\* value leaves the global value in place.  Values are read with dict.get.
C3_LayersMerged ==
    (LayeredLoad /\ SameKinds(call.global_layer.dct, call.local_layer.dct))
    => /\ C3_Merged(call.global_layer.dct, call.local_layer.dct, call.user_config_dict)
       /\ exc \in {"", "ParseError"}

\* C3 witness: one load where a local false replaced a global true, a local
\* 0 was kept, a null local value left the global one, two lists were
\* concatenated and two sets united.
C3_Witness ==
    /\ LayeredLoad
    /\ exc = ""
    /\ Get(call.global_layer.dct, K_verbose) = B(TRUE)
    /\ Get(call.local_layer.dct, K_verbose) = B(FALSE)
    /\ user_config.v[K_verbose] = B(FALSE)
    /\ user_config.v[Us(K_max_commits_for_hook)] = I(0)
    /\ Get(call.local_layer.dct[K_secret].v, K_show_secrets) = Null
    /\ call.user_config_dict[K_secret].v[K_show_secrets] = B(TRUE)
    /\ call.user_config_dict[K_secret].v[K_ignored_detectors] = L(<<S("d1"), S("d2")>>)
    /\ call.user_config_dict[K_secret].v[K_ignored_paths] = St({S("a"), S("b")})

V2File(file) == file.t = "dict" /\ Get(file.v, K_version) = I(2)
SecretOf(m) == GetOr(m, K_secret, EmptyDict)

C6_FixedUp(m, dct) ==
    IF Has(m, IGNORE_KNOWN_SECRETS_KEY)
    THEN /\ ~Has(dct, IGNORE_KNOWN_SECRETS_KEY)
         /\ Get(SecretOf(dct).v, IGNORE_KNOWN_SECRETS_KEY) =
              IF Has(SecretOf(m).v, IGNORE_KNOWN_SECRETS_KEY)
              THEN SecretOf(m).v[IGNORE_KNOWN_SECRETS_KEY]
              ELSE m[IGNORE_KNOWN_SECRETS_KEY]
         /\ \A k \in DOMAIN SecretOf(m).v : SecretOf(dct).v[k] = SecretOf(m).v[k]
         /\ DOMAIN SecretOf(dct).v \subseteq DOMAIN SecretOf(m).v \cup {IGNORE_KNOWN_SECRETS_KEY}
         /\ \A k \in DOMAIN m \ {IGNORE_KNOWN_SECRETS_KEY, K_secret} : Get(dct, k) = m[k]
         /\ DOMAIN dct \subseteq DOMAIN m \cup {K_secret}
    ELSE dct = m

\* C6: the known-secrets fix-up of a v2 mapping whose secret section is a
\* mapping or absent.  When the root holds ignore-known-secrets, the result
\* no longer holds it at the root, secret.ignore-known-secrets reads as the
\* root value when the secret section did not define the key and as the
\* section's own value when it did, and nothing else changed; when the root
\* does not hold the key the mapping is unchanged.  Values are read with
\* dict.get.
C6_KnownSecretsFixUp ==
    \A p \in Paths :
        (WasRead(p) /\ V2File(call.files[p]) /\ SecretOf(call.files[p].v).t = "dict")
        => /\ LayerOf(p).exc = ""
           /\ C6_FixedUp(Pop(HyphenKeys(call.files[p]), K_version), LayerOf(p).dct)

\* C6 witness: the root said true, the secret section said false, and after
\* the load the section still says false and the root holds no such key.
C6_Witness ==
    /\ WasRead("local")
    /\ Get(call.files["local"].v, IGNORE_KNOWN_SECRETS_KEY) = B(TRUE)
    /\ Get(SecretOf(call.files["local"].v).v, IGNORE_KNOWN_SECRETS_KEY) = B(FALSE)
    /\ ~Has(call.local_layer.dct, IGNORE_KNOWN_SECRETS_KEY)
    /\ call.local_layer.dct[K_secret].v[IGNORE_KNOWN_SECRETS_KEY] = B(FALSE)
    /\ exc = ""
    /\ user_config.v[K_secret].v[Us(IGNORE_KNOWN_SECRETS_KEY)] = B(FALSE)

Expired(until, t) == until # Null /\ until.v <= t

RulesOf(m, section, key) == GetOr(GetOr(m, section, EmptyDict).v, key, L(<< >>)).v
UntilsOf(rules) ==
    [i \in 1..Len(rules) |-> IF rules[i].t = "dict" THEN Get(rules[i].v, K_until) ELSE Null]
ExpiredOf(untils, t) == LET expired(u) == Expired(u, t) IN SelectSeq(untils, expired)
ActiveOf(untils, t) == LET active(u) == ~Expired(u, t) IN SelectSeq(untils, active)

\* Some list of `value`, at any depth, holds an expired vulnerability rule.
RECURSIVE HoldsExpiredVulnerability(_, _)
HoldsExpiredVulnerability(value, t) ==
    IF value.t = "dict"
    THEN \/ Has(value.v, K_identifier) /\ Expired(Get(value.v, K_until), t)
         \/ \E k \in DOMAIN value.v : HoldsExpiredVulnerability(value.v[k], t)
    ELSE IF value.t = "list"
    THEN \E i \in 1..Len(value.v) : HoldsExpiredVulnerability(value.v[i], t)
    ELSE FALSE

C7_IaC ==
    LET iac == user_config.v[K_iac].v
        paths == UntilsOf(RulesOf(call.user_config_dict, K_iac, K_ignored_paths))
        policies == UntilsOf(RulesOf(call.user_config_dict, K_iac, K_ignored_policies))
    IN /\ UntilsOf(iac[Us(K_ignored_paths)].v) = ActiveOf(paths, call.now)
       /\ UntilsOf(iac[Us(K_outdated_ignored_paths)].v) = ExpiredOf(paths, call.now)
       /\ UntilsOf(iac[Us(K_ignored_policies)].v) = ActiveOf(policies, call.now)
       /\ UntilsOf(iac[Us(K_outdated_ignored_policies)].v) = ExpiredOf(policies, call.now)

C7_SCAActive ==
    UntilsOf(user_config.v[K_sca].v[Us(K_ignored_vulnerabilities)].v) =
        ActiveOf(UntilsOf(RulesOf(call.user_config_dict, K_sca, K_ignored_vulnerabilities)),
                 call.now)

C7_SCAExpired ==
    ExpiredOf(UntilsOf(RulesOf(call.user_config_dict, K_sca, K_ignored_vulnerabilities)),
              call.now)

\* C7 (as the code has it): after a load, the active lists of the three
\* kinds hold exactly the rules with no until or until > now, in their
\* order; the expired IaC paths and policies are exactly what
\* outdated_ignored_paths and outdated_ignored_policies hold; the expired
\* SCA vulnerabilities are in no list of the returned configuration.
C7_ExpiredRemoved ==
    (last_op = "load" /\ exc = "")
    => /\ C7_IaC
       /\ C7_SCAActive
       /\ ~HoldsExpiredVulnerability(user_config, call.now)

\* C7 witness: at now = 1 a load met a path rule with until = 1 and one
\* with until = 2, and a vulnerability rule with until = 1.
C7_Witness ==
    /\ last_op = "load"
    /\ exc = ""
    /\ call.now = 1
    /\ UntilsOf(RulesOf(call.user_config_dict, K_iac, K_ignored_paths)) = <<T(1), T(2)>>
    /\ UntilsOf(user_config.v[K_iac].v[Us(K_ignored_paths)].v) = <<T(2)>>
    /\ UntilsOf(user_config.v[K_iac].v[Us(K_outdated_ignored_paths)].v) = <<T(1)>>
    /\ C7_SCAExpired = <<T(1)>>
    /\ user_config.v[K_sca].v[Us(K_ignored_vulnerabilities)].v = << >>

\* C7 as stated: for each of the three kinds no rule with until <= now is
\* in the active list, and every rule removed for that reason is retained in
\* an outdated collection of the returned configuration.
C7_ExpiredRetained ==
    (last_op = "load" /\ exc = "")
    => /\ C7_IaC
       /\ C7_SCAActive
       /\ C7_SCAExpired # << >> => HoldsExpiredVulnerability(user_config, call.now)

\* The last load read the file save wrote, and nothing else.
Reloaded ==
    /\ last_op = "load"
    /\ exc = ""
    /\ config_path \in written
    /\ \/ call.config_path = config_path
       \/ call.config_path = NoPath /\ call.files["global"] = Missing

NoRuleExpired(m, t) ==
    /\ ExpiredOf(UntilsOf(RulesOf(m, K_iac, K_ignored_paths)), t) = << >>
    /\ ExpiredOf(UntilsOf(RulesOf(m, K_iac, K_ignored_policies)), t) = << >>
    /\ ExpiredOf(UntilsOf(RulesOf(m, K_sca, K_ignored_vulnerabilities)), t) = << >>

\* C8 (as the code has it): when the mapping save persisted is loaded
\* again as the only layer and none of its rules has expired by then, saving
\* persists the identical mapping.
C8_FixedPointUnlessExpired ==
    (Reloaded /\ NoRuleExpired(files[config_path].v, call.now))
    => save(user_config) = files[config_path]

\* C8 witness: a persisted mapping with a rule that is still active at
\* now = 1 was loaded again, and saving would persist it unchanged.
C8_Witness ==
    /\ Reloaded
    /\ call.now = 1
    /\ UntilsOf(RulesOf(files[config_path].v, K_iac, K_ignored_paths)) = <<T(2)>>
    /\ save(user_config) = files[config_path]

\* C8 as stated: the mapping save persisted is a fixed point: loading it
\* and saving again persists the identical mapping.
C8_FixedPoint ==
    Reloaded => save(user_config) = files[config_path]

Hy(key) == StrReplace(key, "_", "-")
Differing(dct, reference) ==
    {f \in DOMAIN reference : reference[f].t # "dict" /\ dct[f] # reference[f]}

C9_Section(written_dct, dct, name) ==
    LET differing == Differing(dct[name].v, default_dct[name].v)
    IN IF differing = {}
       THEN ~Has(written_dct, name)
       ELSE /\ Has(written_dct, name)
            /\ written_dct[name].t = "dict"
            /\ DOMAIN written_dct[name].v = {Hy(f) : f \in differing}
            /\ \A f \in differing : written_dct[name].v[Hy(f)] = dct[name].v[f]

C9_Root(written_dct, dct) ==
    LET differing == Differing(dct, default_dct)
        sections == {f \in DOMAIN default_dct : default_dct[f].t = "dict"}
    IN /\ Get(written_dct, K_version) = I(2)
       /\ \A f \in differing : Get(written_dct, Hy(f)) = dct[f]
       /\ \A name \in sections : C9_Section(written_dct, dct, name)
       /\ DOMAIN written_dct \subseteq {K_version} \cup {Hy(f) : f \in differing} \cup sections

\* C9: the mapping save writes holds version = 2 and, besides it, exactly
\* the settings whose value differs from the all-defaults configuration: a
\* setting equal to its default is omitted, and so is a section whose every
\* setting equals its default.
C9_OnlyNonDefaultsSaved ==
    last_op = "save" => C9_Root(files[config_path].v, user_config.v)

\* C9 witness: a save wrote instance and a secret section without
\* show-secrets (left at its default), and no iac section.
C9_Witness ==
    /\ last_op = "save"
    /\ Has(files[config_path].v, K_secret)
    /\ ~Has(files[config_path].v[K_secret].v, K_show_secrets)
    /\ ~Has(files[config_path].v, K_iac)
    /\ Has(files[config_path].v, K_instance)

RECURSIVE KeysOf(_)
KeysOf(value) ==
    IF value.t = "dict"
    THEN DOMAIN value.v \cup UNION {KeysOf(value.v[k]) : k \in DOMAIN value.v}
    ELSE IF value.t = "list"
    THEN UNION {KeysOf(value.v[i]) : i \in 1..Len(value.v)}
    ELSE {}

\* C10: the mapping a save after a load writes holds no rule that had
\* until <= now at the load, no outdated-* key and no deprecation-messages
\* key, whatever the lists in memory hold.
C10_NothingExpiredSaved ==
    last_op = "save"
    => /\ NoRuleExpired(files[config_path].v, call.now)
       /\ \A k \in KeysOf(files[config_path]) :
            k[1] # "outdated" /\ Hy(k) # K_deprecation_messages

\* C10 witness: a save whose configuration held an outdated path, an
\* outdated policy and a deprecation message in memory.
C10_Witness ==
    /\ last_op = "save"
    /\ user_config.v[K_iac].v[Us(K_outdated_ignored_paths)].v # << >>
    /\ user_config.v[K_iac].v[Us(K_outdated_ignored_policies)].v # << >>
    /\ user_config.v[Us(K_deprecation_messages)].v # << >>

\* The file at p reached load_v1_dict (an empty mapping does not, it is
\* replaced by {version: 2}); V1Data(p) is the mapping load_v1_dict received.
V1File(p) ==
    /\ WasRead(p)
    /\ call.files[p].t = "dict"
    /\ ~Falsy(call.files[p])
    /\ ~Has(HyphenKeys(call.files[p]), K_version)
V1Data(p) == HyphenKeys(call.files[p])

\* C11: in the v1 transform, when api-url is present and instance is absent
\* the result's instance is the dashboard URL of api-url; when both are
\* present instance keeps its explicit value; in both cases the result has
\* no api-url key.
C11_ApiUrlToInstance ==
    \A p \in Paths :
        (V1File(p) /\ Has(V1Data(p), K_api_url))
        => /\ LayerOf(p).exc = ""
           /\ ~Has(LayerOf(p).dct, K_api_url)
           /\ Has(LayerOf(p).dct, K_instance)
           /\ LayerOf(p).dct[K_instance] =
                 IF Has(V1Data(p), K_instance)
                 THEN V1Data(p)[K_instance]
                 ELSE api_to_dashboard_url(V1Data(p)[K_api_url])

\* Both cases of C11 at once: the global file has api-url and instance, the
\* local one api-url alone, and the URL was converted.
C11_Witness ==
    /\ last_op = "load"
    /\ call.config_path = "local"
    /\ V1File("local")
    /\ Has(V1Data("local"), K_api_url)
    /\ ~Has(V1Data("local"), K_instance)
    /\ call.local_layer.dct[K_instance] = S("https://dashboard.example.com")
    /\ call.local_layer.dct[K_instance] # V1Data("local")[K_api_url]

\* The explicit instance next to api-url is kept.
C11_WitnessExplicit ==
    /\ last_op = "load"
    /\ V1File("local")
    /\ Has(V1Data("local"), K_api_url)
    /\ Has(V1Data("local"), K_instance)
    /\ call.local_layer.dct[K_instance] = S("https://custom")

V1RootKeys ==
    {K_instance, K_exit_zero, K_verbose, K_allow_self_signed, K_max_commits_for_hook}
V1SecretSources ==
    (K_show_secrets :> K_show_secrets) @@ (K_ignored_detectors :> K_banlisted_detectors)
    @@ (K_ignored_paths :> K_paths_ignore) @@ (K_ignored_matches :> K_matches_ignore)

\* The notices load_v1_dict may add for the file at p: one per deprecated key.
V1Notices(p) ==
    LET added == SubSeq(LayerOf(p).deprecation_messages, Len(MessagesBefore(p)) + 2,
                        Len(LayerOf(p).deprecation_messages))
    IN /\ \A i \in DOMAIN added : added[i] \in {AllPoliciesMessage, IgnoreDefaultExcludeMessage}
       /\ Len(added) = Cardinality({K_all_policies, K_ignore_default_excludes}
                                   \cap DOMAIN V1Data(p))

\* The result of the v1 transform of the file at p is closed, and holds each
\* destination key exactly when Source(key) says so.
V1Closed(p, HasSource(_)) ==
    LET dct == LayerOf(p).dct
    IN /\ Has(dct, K_secret)
       /\ dct[K_secret].t = "dict"
       /\ DOMAIN dct \subseteq V1RootKeys \cup {K_secret}
       /\ DOMAIN dct[K_secret].v \subseteq DOMAIN V1SecretSources
       /\ \A key \in V1RootKeys \ {K_instance} : Has(dct, key) <=> Has(V1Data(p), key)
       /\ Has(dct, K_instance) <=> (Has(V1Data(p), K_instance) \/ Has(V1Data(p), K_api_url))
       /\ \A key \in DOMAIN V1SecretSources : Has(dct[K_secret].v, key) <=> HasSource(key)
       /\ V1Notices(p)

C12_Present(p, key) == Has(V1Data(p), V1SecretSources[key])
C12_PresentAndFilled(p, key) ==
    /\ Has(V1Data(p), V1SecretSources[key])
    /\ key = K_ignored_matches => ~Falsy(V1Data(p)[K_matches_ignore])

\* C12: the v1 transform is closed: root keys only among secret, instance,
\* exit-zero, verbose, allow-self-signed, max-commits-for-hook; keys under
\* secret only among show-secrets, ignored-detectors, ignored-paths,
\* ignored-matches; each destination key exists exactly when its source key
\* is present in the v1 mapping, and every other key is dropped without a
\* notice.
C12_ClosedTransform ==
    \A p \in Paths :
        (V1File(p) /\ LayerOf(p).exc = "")
        => LET present(key) == C12_Present(p, key) IN V1Closed(p, present)

\* C12 as the code has it: secret.ignored-matches exists exactly when
\* matches-ignore is present and not empty; every other destination key
\* exists exactly when its source key is present, whatever its value.
C12_ClosedTransformNonEmptyMatches ==
    \A p \in Paths :
        (V1File(p) /\ LayerOf(p).exc = "")
        => LET present(key) == C12_PresentAndFilled(p, key) IN V1Closed(p, present)

\* A v1 file with copied keys (one of them null), unknown keys and a
\* non-empty matches-ignore was transformed.
C12_Witness ==
    /\ V1File("local")
    /\ LayerOf("local").exc = ""
    /\ Has(V1Data("local"), K_debug)
    /\ Has(V1Data("local"), K_all_policies)
    /\ Has(V1Data("local"), K_api_url)
    /\ Has(LayerOf("local").dct[K_secret].v, K_ignored_matches)
    /\ Has(LayerOf("local").dct, K_max_commits_for_hook)

\* The other side of C12: a null exit-zero is copied, an empty
\* matches-ignore is not.
C12_WitnessEmpty ==
    /\ V1File("local")
    /\ LayerOf("local").exc = ""
    /\ \/ /\ Has(V1Data("local"), K_exit_zero)
          /\ LayerOf("local").dct[K_exit_zero] = Null
       \/ /\ Has(V1Data("local"), K_matches_ignore)
          /\ ~Has(LayerOf("local").dct[K_secret].v, K_ignored_matches)

\* The notices the load of the file at p added to the list it was given.
AddedMessages(p) ==
    SubSeq(LayerOf(p).deprecation_messages, Len(MessagesBefore(p)) + 1,
           Len(LayerOf(p).deprecation_messages))
DeprecatedOptions ==
    (K_all_policies :> AllPoliciesMessage)
    @@ (K_ignore_default_excludes :> IgnoreDefaultExcludeMessage)

\* C13: for every v1 mapping, each of all-policies and
\* ignore-default-excludes that is present adds exactly one deprecation
\* notice for that key and produces no key in the result; an absent key adds
\* no notice.
C13_DeprecatedOptions ==
    \A p \in Paths :
        (V1File(p) /\ LayerOf(p).exc = "")
        => \A key \in DOMAIN DeprecatedOptions :
              /\ Count(AddedMessages(p), DeprecatedOptions[key]) =
                    IF Has(V1Data(p), key) THEN 1 ELSE 0
              /\ ~Has(LayerOf(p).dct, key)
              /\ ~Has(LayerOf(p).dct[K_secret].v, key)
              /\ ~Has(LayerOf(p).dct, Us(key))

\* A v1 file with both options, one of them null and written with an
\* underscore, the other false, drew a notice for each; the global file
\* read before it drew its own.
C13_Witness ==
    /\ V1File("local")
    /\ call.config_path = NoPath
    /\ V1File("global")
    /\ LayerOf("local").exc = ""
    /\ Has(call.files["local"].v, Us(K_all_policies))
    /\ Has(V1Data("local"), K_ignore_default_excludes)
    /\ Count(AddedMessages("local"), AllPoliciesMessage) = 1
    /\ Count(LayerOf("local").deprecation_messages, AllPoliciesMessage) = 2

IgnoredMatchesOf(config) == config.v[K_secret].v[Us(K_ignored_matches)].v
DistinctMatches(lst) ==
    \A i, j \in DOMAIN lst : lst[i].v[K_match] = lst[j].v[K_match] => i = j

\* What add_ignored_match(secret) may do to a list `before` of distinct matches.
C14_Added(before, after, secret) ==
    IF \A i \in DOMAIN before : before[i].v[K_match] # secret.v[K_match]
    THEN after = Append(before, secret)
    ELSE /\ Len(after) = Len(before)
         /\ \A i \in DOMAIN before :
               /\ after[i].v[K_match] = before[i].v[K_match]
               /\ after[i].v[K_name] =
                     IF before[i].v[K_match] = secret.v[K_match]
                        /\ Falsy(before[i].v[K_name])
                     THEN secret.v[K_name]
                     ELSE before[i].v[K_name]

\* C14: starting from an ignored_matches list with distinct match values,
\* every add_ignored_match call leaves at most one entry per match: adding an
\* existing match leaves length and order unchanged and sets the existing
\* entry's name to the new name only when the entry had none, otherwise the
\* first name is kept; adding a new match appends exactly one entry at the end.
C14_AddIgnoredMatch ==
    [][\A secret \in Secrets :
          (AddIgnoredMatch(secret) /\ DistinctMatches(IgnoredMatchesOf(user_config)))
          => /\ DistinctMatches(IgnoredMatchesOf(user_config'))
             /\ C14_Added(IgnoredMatchesOf(user_config), IgnoredMatchesOf(user_config'),
                          secret)]_vars

\* After two calls on a loaded list of distinct matches: an entry without
\* name got the new name, or an entry kept its first name, and a new match
\* stands at the end.
C14_Witness ==
    /\ last_op = "add_ignored_match"
    /\ adds = 2
    /\ LET lst == IgnoredMatchesOf(user_config)
           loaded == Get(GetOr(call.user_config_dict, K_secret, EmptyDict).v,
                         K_ignored_matches)
       IN /\ loaded # Null
          /\ DistinctMatches(loaded.v)
          /\ Len(lst) = Len(loaded.v) + 1
          /\ lst[Len(lst)].v[K_match] = S("hash3")
          /\ \E i \in DOMAIN loaded.v :
                /\ loaded.v[i].v[K_match] = S("hash1")
                /\ lst[i].v[K_match] = S("hash1")
                /\ lst[i].v[K_name] \in {S("name1"), S("name2")}

\* The configuration of a run without any file: every default, no notice.
AllDefaults == D(Put(from_dict(EmptyMap, 0, 0).v.v, Us(K_deprecation_messages), L(<< >>)))

\* A load without explicit path where only the file at p exists and was
\* read without error: the mapping handed to validation reads as that file's
\* own, and the notices are that file's own.
C15_OnlyLayer(p) ==
    /\ SameReading(D(call.user_config_dict), D(LayerOf(p).dct))
    /\ call.local_layer.deprecation_messages = LayerOf(p).deprecation_messages
    /\ exc = "" => user_config.v[Us(K_deprecation_messages)].v
                      = LayerOf(p).deprecation_messages

\* C15: a missing file is never an error and never deprecated: load with an
\* explicit path that does not exist returns the all-defaults configuration
\* with an empty deprecation list together with that same path, and in a load
\* without explicit path a missing global or local file contributes no
\* setting and no deprecation notice.
C15_MissingFile ==
    /\ \A p \in Paths :
          (last_op = "load" /\ call.config_path = p /\ call.files[p] = Missing)
          => /\ exc = ""
             /\ user_config = AllDefaults
             /\ config_path = p
    /\ (last_op = "load" /\ call.config_path = NoPath)
       => /\ (call.files["global"] = Missing /\ call.files["local"] = Missing)
             => (exc = "" /\ user_config = AllDefaults
                 /\ config_path = DEFAULT_LOCAL_CONFIG_PATH)
          /\ \A p, q \in Paths :
                (call.files[q] = Missing /\ call.files[p] # Missing /\ LayerOf(p).exc = "")
                => C15_OnlyLayer(p)

\* Load of an explicit path that does not exist, next to a global file that
\* is deprecated: the defaults came back with that path and no notice.
C15_Witness ==
    /\ last_op = "load"
    /\ call.config_path = "local"
    /\ call.files["local"] = Missing
    /\ call.files["global"] = DeprecatedFile
    /\ config_path = "local"
    /\ user_config.v[K_verbose] = B(FALSE)
    /\ user_config.v[K_instance] = Null
    /\ user_config.v[K_secret].v[Us(K_show_secrets)] = B(FALSE)
    /\ user_config.v[Us(K_deprecation_messages)] = L(<< >>)

\* Load without explicit path with the local file missing: the settings and
\* the notices are the global file's.
C15_WitnessLayered ==
    /\ last_op = "load"
    /\ call.config_path = NoPath
    /\ call.files["local"] = Missing
    /\ call.files["global"] = DeprecatedFile
    /\ exc = ""
    /\ user_config.v[K_verbose] = B(TRUE)
    /\ Len(user_config.v[Us(K_deprecation_messages)].v) = 2

\* The instant an `until` of the file stands for: a bare date read as
\* midnight of that date, `ahead` ticks ahead of UTC.
MidnightOf(until, ahead) ==
    IF until.t = "date" THEN T(until.v * TicksPerDay - ahead) ELSE until
Midnights(untils, ahead) == [i \in DOMAIN untils |-> MidnightOf(untils[i], ahead)]

\* The rules of the last load hold the instants Midnights(_, ahead) gives,
\* and were swept by them.
DatesRead(ahead) ==
    LET iac == user_config.v[K_iac].v
        paths == Midnights(UntilsOf(RulesOf(call.user_config_dict, K_iac, K_ignored_paths)),
                           ahead)
        policies == Midnights(UntilsOf(RulesOf(call.user_config_dict, K_iac,
                                               K_ignored_policies)), ahead)
        vulns == Midnights(UntilsOf(RulesOf(call.user_config_dict, K_sca,
                                            K_ignored_vulnerabilities)), ahead)
    IN /\ UntilsOf(iac[Us(K_ignored_paths)].v) = ActiveOf(paths, call.now)
       /\ UntilsOf(iac[Us(K_outdated_ignored_paths)].v) = ExpiredOf(paths, call.now)
       /\ UntilsOf(iac[Us(K_ignored_policies)].v) = ActiveOf(policies, call.now)
       /\ UntilsOf(iac[Us(K_outdated_ignored_policies)].v) = ExpiredOf(policies, call.now)
       /\ UntilsOf(user_config.v[K_sca].v[Us(K_ignored_vulnerabilities)].v)
             = ActiveOf(vulns, call.now)

\* C16: for every ignore rule whose until is a bare calendar date, the loaded
\* until is midnight UTC of that date whatever the time zone of the machine,
\* so the rule is expired exactly when midnight UTC of that date is <= now.
C16_DateIsMidnightUTC ==
    (last_op = "load" /\ exc = "") => DatesRead(0)

\* What the code does with a bare date: midnight of that date in the
\* machine's time zone.
DateIsLocalMidnight ==
    (last_op = "load" /\ exc = "") => DatesRead(utcoffset)

\* A rule dated 0 was loaded at now = 0 on a machine behind UTC and is still
\* active, its until one tick after midnight UTC.
DateReadBehindUTC ==
    /\ last_op = "load"
    /\ exc = ""
    /\ call.now = 0
    /\ utcoffset = 0 - 1
    /\ UntilsOf(RulesOf(call.user_config_dict, K_iac, K_ignored_paths)) = <<Dt(0)>>
    /\ UntilsOf(user_config.v[K_iac].v[Us(K_ignored_paths)].v) = <<T(1)>>

\* The list remove_expired_elements received for iac.ignored_paths in the
\* last load (rules that hold every field, their until an instant), and the
\* two lists it left: the rules kept and the rules returned.
SweptList == RulesOf(call.user_config_dict, K_iac, K_ignored_paths)
KeptRules == user_config.v[K_iac].v[Us(K_ignored_paths)].v
ReturnedRules == user_config.v[K_iac].v[Us(K_outdated_ignored_paths)].v
ExpiredRule(rule, t) == rule.v[K_until] # Null /\ rule.v[K_until].v <= t
ExpiredCount(lst, t) == Cardinality({i \in DOMAIN lst : ExpiredRule(lst[i], t)})

\* C17: for every list L of n rules of which k have until set and
\* until <= now (equal counts as expired, no until never does),
\* remove_expired_elements leaves in L exactly the n-k active rules in their
\* original relative order and returns exactly the k expired rules in their
\* original relative order; none is in both, none lost or duplicated.
C17_ExpirySweep ==
    (last_op = "load" /\ exc = "")
    => LET expired(rule) == ExpiredRule(rule, call.now)
           active(rule) == ~ExpiredRule(rule, call.now)
       IN /\ KeptRules = SelectSeq(SweptList, active)
          /\ ReturnedRules = SelectSeq(SweptList, expired)
          /\ Len(ReturnedRules) = ExpiredCount(SweptList, call.now)
          /\ Len(KeptRules) = Len(SweptList) - ExpiredCount(SweptList, call.now)
          /\ \A i \in DOMAIN KeptRules, j \in DOMAIN ReturnedRules :
                KeptRules[i] # ReturnedRules[j]

\* At now = 1 a list of four rules, two from each layer, was swept: the first
\* and the last have until = 1 (expired, being equal to now), the second has
\* no until, the third until = 2.
C17_Witness ==
    /\ last_op = "load"
    /\ exc = ""
    /\ call.now = 1
    /\ UntilsOf(SweptList) = <<T(1), Null, T(2), T(1)>>
    /\ KeptRules = <<SweptList[2], SweptList[3]>>
    /\ ReturnedRules = <<SweptList[1], SweptList[4]>>
    /\ SweptList[1] # SweptList[4]

\* No key of x, at any depth, contains ch.
RECURSIVE NoKeyWith(_, _)
NoKeyWith(x, ch) ==
    IF x.t = "dict"
    THEN \A k \in DOMAIN x.v : ~Contains(k, ch) /\ NoKeyWith(x.v[k], ch)
    ELSE IF x.t = "list"
    THEN \A i \in 1..Len(x.v) : NoKeyWith(x.v[i], ch)
    ELSE TRUE

\* Every key of x without old_char is a key of y at the same place, at every
\* depth that no renamed key has overwritten.
RECURSIVE KeysKept(_, _, _, _)
KeysKept(x, y, old_char, new_char) ==
    IF x.t = "dict"
    THEN /\ y.t = "dict"
         /\ \A k \in DOMAIN x.v :
               ~Contains(k, old_char)
               => /\ k \in DOMAIN y.v
                  /\ (\A j \in DOMAIN x.v : StrReplace(j, old_char, new_char) = k => j = k)
                     => KeysKept(x.v[k], y.v[k], old_char, new_char)
    ELSE IF x.t = "list"
    THEN /\ y.t = "list"
         /\ Len(y.v) = Len(x.v)
         /\ \A i \in 1..Len(x.v) : KeysKept(x.v[i], y.v[i], old_char, new_char)
    ELSE y = x

\* Each rewrite reached every key, at every depth and inside lists, and left
\* the keys without the replaced character where they were.
C18_KeysKept ==
    /\ last_op \in {"hyphenate", "underscore"}
       => (NoKeyWith(ret[1], "_") /\ KeysKept(arg, ret[1], "_", "-"))
    /\ last_op = "underscore"
       => (NoKeyWith(ret[2], "-") /\ KeysKept(ret[1], ret[2], "-", "_"))

\* C18: for every nested structure of mappings and lists of mappings,
\* replacing _ by - in all keys and then - by _ reproduces the original key
\* set at every depth, with every value unchanged and no entry lost; a key
\* not containing the replaced character is never altered.
C18_RoundTrip ==
    /\ last_op = "underscore" => ret[2] = arg
    /\ C18_KeysKept

\* C18 for the structures it holds for: those with no - in any key.
C18_RoundTripWithoutHyphens ==
    /\ (last_op = "underscore" /\ NoKeyWith(arg, "-")) => ret[2] = arg
    /\ C18_KeysKept

\* A structure with _ keys at two depths, one of them in a mapping of a
\* list, and a key without _, went through both rewrites.
C18_Witness ==
    /\ last_op = "underscore"
    /\ arg = D((<<"a", "_", "b">> :> D(<<"a", "_", "b">> :> I(1)))
               @@ (<<"c">> :> L(<<D(<<"a", "_", "b">> :> I(1)), D(<<"c">> :> I(1))>>)))
    /\ ret[1] = D((<<"a", "-", "b">> :> D(<<"a", "-", "b">> :> I(1)))
                  @@ (<<"c">> :> L(<<D(<<"a", "-", "b">> :> I(1)), D(<<"c">> :> I(1))>>)))
    /\ ret[2] = arg

\* The mapping m without its keys whose value is null, at every depth of
\* nested mappings (lists are left as they are).
RECURSIVE WithoutNulls(_)
WithoutNulls(m) ==
    [k \in {j \in DOMAIN m : m[j] # Null} |->
        IF m[k].t = "dict" THEN D(WithoutNulls(m[k].v)) ELSE m[k]]

\* C19: for every src built from scalars, lists, sets and nested mappings,
\* merging src into an empty destination makes the destination structurally
\* equal to src; for every dst, merging an empty src leaves dst unchanged.
C19_MergeIdentities ==
    last_op = "update_dict_from_other"
    => /\ ret[1].exc = ""
       /\ arg.dst = EmptyDict => ret[1].v = D(arg.src)
       /\ arg.src = EmptyMap => ret[1].v = arg.dst

\* C19 as the code has it: the destination equals src without its null
\* values, hence src itself when src holds no null value in any mapping.
C19_MergeIdentitiesWithoutNulls ==
    last_op = "update_dict_from_other"
    => /\ ret[1].exc = ""
       /\ arg.dst = EmptyDict => ret[1].v = D(WithoutNulls(arg.src))
       /\ (arg.dst = EmptyDict /\ WithoutNulls(arg.src) = arg.src) => ret[1].v = D(arg.src)
       /\ arg.src = EmptyMap => ret[1].v = arg.dst

\* A src with a set and a nested mapping, no value null, was merged into an
\* empty destination, which then equals src.
C19_Witness ==
    /\ last_op = "update_dict_from_other"
    /\ arg.dst = EmptyDict
    /\ arg.src = (K_instance :> St({S("a")})) @@ (K_secret :> D(K_verbose :> B(TRUE)))
    /\ ret[1].v = D(arg.src)

\* A src with a false scalar and a null value two mappings deep: the
\* destination holds everything but the null value.
C19_WitnessNull ==
    /\ last_op = "update_dict_from_other"
    /\ arg.dst = EmptyDict
    /\ arg.src = (K_instance :> B(FALSE))
                  @@ (K_secret :> D(K_secret :> D((K_show_secrets :> B(TRUE))
                                                  @@ (K_name :> Null))))
    /\ ret[1].v = D((K_instance :> B(FALSE))
                    @@ (K_secret :> D(K_secret :> D(K_show_secrets :> B(TRUE)))))

\* A dst that holds null values kept them when an empty src was merged.
C19_WitnessEmptySrc ==
    /\ last_op = "update_dict_from_other"
    /\ arg.src = EmptyMap
    /\ arg.dst = D((K_instance :> Null) @@ (K_secret :> St({S("a")})))
    /\ ret[1].v = arg.dst

\* The ignore-known-secrets value a v2 file stands for: the one under secret
\* when secret has the key, the one at the root otherwise.
KnownSecretsOf(file) ==
    IF Has(SecretOf(HyphenKeys(file)).v, IGNORE_KNOWN_SECRETS_KEY)
    THEN SecretOf(HyphenKeys(file)).v[IGNORE_KNOWN_SECRETS_KEY]
    ELSE Get(HyphenKeys(file), IGNORE_KNOWN_SECRETS_KEY)

\* The value the merged mapping holds, and where no layer has it any more.
MergedKnownSecrets == Get(SecretOf(call.user_config_dict).v, IGNORE_KNOWN_SECRETS_KEY)
FixedBeforeMerge ==
    /\ ~Has(call.global_layer.dct, IGNORE_KNOWN_SECRETS_KEY)
    /\ ~Has(call.local_layer.dct, IGNORE_KNOWN_SECRETS_KEY)
    /\ ~Has(call.user_config_dict, IGNORE_KNOWN_SECRETS_KEY)
    /\ ~Has(call.user_config_dict, Us(IGNORE_KNOWN_SECRETS_KEY))

\* C20: in a load without explicit path the known-secrets fix-up and the v1
\* transform are applied to each layer before the layers are merged, so the
\* local file's ignore-known-secrets value wins over the global file's,
\* whichever placement (root or under secret) each file uses; a misplaced
\* root-level value of the global file never overrides an explicit
\* secret.ignore-known-secrets of the local file.
C20_LocalKnownSecretsWin ==
    (LayeredLoad /\ WasRead("local") /\ V2File(call.files["local"]))
    => /\ FixedBeforeMerge
       /\ KnownSecretsOf(call.files["local"]) # Null
          => /\ MergedKnownSecrets = KnownSecretsOf(call.files["local"])
             /\ exc = "" => user_config.v[K_secret].v[Us(IGNORE_KNOWN_SECRETS_KEY)]
                               = KnownSecretsOf(call.files["local"])
       /\ (/\ KnownSecretsOf(call.files["local"]) = Null
           /\ WasRead("global")
           /\ V2File(call.files["global"]))
          => MergedKnownSecrets = KnownSecretsOf(call.files["global"])

\* The global file has ignore-known-secrets: true at the root, the local
\* file secret.ignore-known-secrets: false, and false was loaded.
C20_Witness ==
    /\ LayeredLoad
    /\ exc = ""
    /\ V2File(call.files["global"])
    /\ V2File(call.files["local"])
    /\ Get(call.files["global"].v, IGNORE_KNOWN_SECRETS_KEY) = B(TRUE)
    /\ ~Has(call.files["local"].v, IGNORE_KNOWN_SECRETS_KEY)
    /\ Get(SecretOf(call.files["local"].v).v, IGNORE_KNOWN_SECRETS_KEY) = B(FALSE)
    /\ call.global_layer.dct[K_secret].v[IGNORE_KNOWN_SECRETS_KEY] = B(TRUE)
    /\ user_config.v[K_secret].v[Us(IGNORE_KNOWN_SECRETS_KEY)] = B(FALSE)

\* The other way round: the global file has secret.ignore-known-secrets:
\* false, the local file ignore-known-secrets: true at the root.
C20_WitnessRoot ==
    /\ LayeredLoad
    /\ exc = ""
    /\ V2File(call.files["global"])
    /\ V2File(call.files["local"])
    /\ Get(SecretOf(call.files["global"].v).v, IGNORE_KNOWN_SECRETS_KEY) = B(FALSE)
    /\ Get(call.files["local"].v, IGNORE_KNOWN_SECRETS_KEY) = B(TRUE)
    /\ ~Has(call.files["local"].v, K_secret)
    /\ user_config.v[K_secret].v[Us(IGNORE_KNOWN_SECRETS_KEY)] = B(TRUE)

\* The ignored matches a layer lists under secret, and the entries of two
\* lists that agree in match and name.
MatchesIn(dct) ==
    LET secret == GetOr(dct, K_secret, EmptyDict)
    IN IF secret.t = "dict" /\ Get(secret.v, K_ignored_matches).t = "list"
       THEN secret.v[K_ignored_matches].v
       ELSE << >>
SameEntry(a, b) == a.v[K_match] = b.v[K_match] /\ a.v[K_name] = b.v[K_name]
SharedMatches(g, l) ==
    {<<i, j>> \in (DOMAIN g) \X (DOMAIN l) : g[i].v[K_match] = l[j].v[K_match]}

\* C21: load does not enforce the uniqueness of ignored matches, only
\* add_ignored_match does: in a load without explicit path the loaded
\* ignored_matches is the plain concatenation of the global file's entries
\* and the local file's entries, each with the name its own file gave it; a
\* match value both files list is held twice, the global entry first and the
\* local entry second, and neither name is backfilled from the other.
C21_LoadConcatenatesMatches ==
    (LayeredLoad /\ exc = "")
    => LET g == MatchesIn(call.global_layer.dct)
           l == MatchesIn(call.local_layer.dct)
           r == IgnoredMatchesOf(user_config)
       IN /\ Len(r) = Len(g) + Len(l)
          /\ \A i \in DOMAIN g : SameEntry(r[i], g[i])
          /\ \A j \in DOMAIN l : SameEntry(r[Len(g) + j], l[j])
          /\ \A p \in SharedMatches(g, l) :
                /\ r[p[1]].v[K_match] = r[Len(g) + p[2]].v[K_match]
                /\ r[p[1]].v[K_name] = g[p[1]].v[K_name]
                /\ r[Len(g) + p[2]].v[K_name] = l[p[2]].v[K_name]
                /\ ~DistinctMatches(r)

\* The global file lists hash1 without a name, the local file lists hash1 as
\* name1 and hash2: the loaded list holds hash1 twice, first still without
\* a name, then as name1.
C21_Witness ==
    /\ LayeredLoad
    /\ exc = ""
    /\ V2File(call.files["global"])
    /\ V2File(call.files["local"])
    /\ MatchesIn(call.files["global"].v) = <<D((K_name :> S("")) @@ (K_match :> S("hash1")))>>
    /\ Len(MatchesIn(call.files["local"].v)) = 2
    /\ MatchesIn(call.files["local"].v)[1] = D((K_name :> S("name1")) @@ (K_match :> S("hash1")))
    /\ LET r == IgnoredMatchesOf(user_config)
       IN /\ Len(r) = 3
          /\ r[1].v[K_match] = S("hash1") /\ r[1].v[K_name] = S("")
          /\ r[2].v[K_match] = S("hash1") /\ r[2].v[K_name] = S("name1")
          /\ r[3].v[K_match] = S("hash2")

\* The other way round: the named entry comes from the global file and the
\* unnamed one from the local file, which stays unnamed.
C21_WitnessNamedFirst ==
    /\ LayeredLoad
    /\ exc = ""
    /\ Len(MatchesIn(call.global_layer.dct)) = 2
    /\ Len(MatchesIn(call.local_layer.dct)) = 1
    /\ LET r == IgnoredMatchesOf(user_config)
       IN /\ Len(r) = 3
          /\ r[1].v[K_match] = S("hash1") /\ r[1].v[K_name] = S("name1")
          /\ r[3].v[K_match] = S("hash1") /\ r[3].v[K_name] = S("")
====
